---- MODULE Spec2Model ----
(***************************************************************************)
(* Heat-hazard assistant: the inference service (inference/main.py), the   *)
(* persistence of the trained artifacts (ML/improved_model.py), the        *)
(* training-time feature engineer and the nearest-point weather join       *)
(* (ML/data_preparation.py, ML/prep_data.py).                              *)
(*                                                                         *)
(* Numbers.  Floats are fixed-point integers:                              *)
(*   - a risk score in [0,1] is an integer 0..Scale (hundredths);          *)
(*   - a temperature reading is an integer number of tenths of a degree,   *)
(*     drawn even so that 0.5 * tavg is exact, as it is in binary floats;  *)
(*   - a coordinate is an integer number of 1e-4 degrees;                  *)
(*   - np.hypot(dx, dy) is kept as dx^2 + dy^2 (its square);               *)
(*   - np.sin / np.cos of 2*pi*x/P is kept as the term <<f, 2*x, P>>.      *)
(* Python's None is 0 for the loaded artifacts (a training run is >= 1)    *)
(* and the empty sequence for an Optional[float] (a supplied v is <<v>>).  *)
(* An exception is a value: a record with raised |-> TRUE.                 *)
(***************************************************************************)
EXTENDS Integers, Sequences, FiniteSets, TLC

VARIABLES
    files,          \* models/*.joblib on disk: artifact |-> training run (0 = no file)
    trainer,        \* improved_model.main: [run, pc] of the persisting training run
    srv,            \* the serving process: "boot", "startup", "serving", "exited"
    loadpc,         \* position inside load_models
    model,          \* main.py global `model`        (0 = None, else the run it came from)
    feature_list,   \* main.py global `feature_list` (0 = None)
    threshold,      \* main.py global `threshold`    (0 = None)
    scaler,         \* main.py global `scaler`       (0 = None, 1 = a fitted scaler)
    request,        \* the PredictionRequest last handed to /predict
    resp,           \* the last response a handler produced
    trainRow,       \* the training-time row engineered from the same raw inputs
    incidents,      \* the incident table given to the join
    weather,        \* the weather table given to the join
    landcover,      \* the landcover polygon table given to the join
    frames,         \* the caller's incident and weather frames: dtype, added columns
    joined,         \* the tables the join built, stage by stage, and by which script
    series,         \* the observations handed to the rolling aggregator
    rolled,         \* the ordered groups and their rolling means, and by which script
    scored,         \* the test rows by score the model gave them: score |-> [pos, neg]
    best,           \* what find_best_threshold returned
    categories,     \* a categorical column of train_df and of test_df in this run
    encodings,      \* the encoders built so far, a run after another
    df,             \* features.csv as a training script reads it: row kind |-> rows
    run,            \* the training script under way: its position, tables and log
    final_df,       \* the joined table handed to clean_and_export_features
    features,       \* what clean_and_export_features wrote to features.csv
    setup           \* setup.py under way: its position, the two model directories, its report

vars == <<files, trainer, srv, loadpc, model, feature_list, threshold, scaler,
          request, resp, trainRow, incidents, weather, landcover, frames, joined,
          series, rolled, scored, best, categories, encodings, df, run,
          final_df, features, setup>>

svcVars  == <<files, trainer, srv, loadpc>>
bundle   == <<model, feature_list, threshold, scaler>>
joinVars == <<incidents, weather, landcover, frames, joined>>
rollVars == <<series, rolled>>
serviceSide == <<svcVars, bundle, request, resp, trainRow>>
threshVars == <<scored, best>>
encodeVars == <<categories, encodings>>
trainVars == <<df, run>>
exportVars == <<final_df, features>>
setupVars == <<setup>>
offlineVars == <<joinVars, rollVars, threshVars, encodeVars, trainVars, exportVars, setupVars>>
notJoin == <<serviceSide, rollVars, threshVars, encodeVars, trainVars, exportVars, setupVars>>
notRoll == <<serviceSide, joinVars, threshVars, encodeVars, trainVars, exportVars, setupVars>>
notThresh == <<serviceSide, joinVars, rollVars, encodeVars, trainVars, exportVars, setupVars>>
notEncode == <<serviceSide, joinVars, rollVars, threshVars, trainVars, exportVars, setupVars>>
notTrain == <<serviceSide, joinVars, rollVars, threshVars, encodeVars, exportVars, setupVars>>
notExport == <<serviceSide, joinVars, rollVars, threshVars, encodeVars, trainVars, setupVars>>
notSetup == <<serviceSide, joinVars, rollVars, threshVars, encodeVars, trainVars, exportVars>>

----------------------------------------------------------------------------
(* Bounds and program constants *)

MaxRuns == 2            \* training runs that persist artifacts
MaxHalfDeg == 2         \* readings are 0, 2, .., 2*MaxHalfDeg tenths of a degree
MaxIncidents == 2       \* rows of the incident table
MaxWeather == 2         \* rows of the weather table

Scale == 100            \* risk_score: float in [0,1] as hundredths
LowCut == 30            \* 0.3
MediumCut == 60         \* 0.6
HighCut == 80           \* 0.8
PeakFrom == 10
PeakTo == 17
CenterLat == 129716     \* 12.9716
CenterLon == 775946     \* 77.5946

None == 0
NoFloat == <<>>
Some(v) == <<v>>

----------------------------------------------------------------------------
(* Calendar: datetime.strptime / date.weekday (inference) and pandas'      *)
(* Timestamp.dayofweek (training).                                         *)

IsLeap(y) == (y % 4 = 0) /\ ((y % 100 # 0) \/ (y % 400 = 0))

DaysInMonth(y, m) ==
    IF m = 2 THEN (IF IsLeap(y) THEN 29 ELSE 28)
    ELSE IF m \in {4, 6, 9, 11} THEN 30 ELSE 31

\* A date string is [sep, a, b, c]: three digit groups joined by sep.
\* "%Y-%m-%d" wants a four-digit year, a month 1..12 and a day of that month;
\* anything else is ValueError.
strptime_ok(date) ==
    /\ date.sep = "-"
    /\ date.a \in 1000..9999
    /\ date.b \in 1..12
    /\ date.c \in 1..DaysInMonth(date.a, date.b)

RECURSIVE DaysBeforeMonth(_, _)
DaysBeforeMonth(y, m) ==
    IF m = 1 THEN 0 ELSE DaysBeforeMonth(y, m - 1) + DaysInMonth(y, m - 1)

\* datetime.date.toordinal: 0001-01-01 is day 1.
toordinal(y, m, d) ==
    LET p == y - 1
    IN  p * 365 + (p \div 4) - (p \div 100) + (p \div 400) + DaysBeforeMonth(y, m) + d

\* datetime.date.weekday: Monday = 0.
weekday(y, m, d) == (toordinal(y, m, d) + 6) % 7

\* pandas Timestamp.dayofweek (ccalendar.dayofweek, Sakamoto's method): Monday = 0.
dayofweek(y, m, d) ==
    LET t   == <<0, 3, 2, 5, 0, 3, 5, 1, 4, 6, 2, 4>>
        yy  == IF m < 3 THEN y - 1 ELSE y
        day == (yy + (yy \div 4) - (yy \div 100) + (yy \div 400) + t[m] + d) % 7
    IN  (day + 6) % 7

----------------------------------------------------------------------------
(* Feature engineering shared shapes *)

Sin(x, period) == <<"sin", 2 * x, period>>
Cos(x, period) == <<"cos", 2 * x, period>>
Hypot2(dx, dy) == dx * dx + dy * dy
Half(x) == x \div 2

\* The list with two neighbours exchanged, as a training script edited without
\* the service would leave it.
feature_cols_reordered ==
    <<"temp", "tavg", "tmin", "prcp",
      "temp_roll3", "tavg_roll3", "temp_roll7", "tavg_roll7",
      "temp_range", "heat_index", "is_peak", "is_weekend",
      "dist_center", "hour_sin", "hour_cos", "month_sin", "month_cos">>

\* improved_model.prepare_features: the feature-name list that is persisted.
feature_cols ==
    <<"temp", "tavg", "tmin", "prcp",
      "temp_roll3", "temp_roll7", "tavg_roll3", "tavg_roll7",
      "temp_range", "heat_index", "is_peak", "is_weekend",
      "dist_center", "hour_sin", "hour_cos", "month_sin", "month_cos">>

\* What joblib.load("models/feature_list_v4.joblib") yields for a loaded global:
\* every run dumps `feats`, the list prepare_features returned.
LoadedFeatureNames == IF feature_list = None THEN <<>> ELSE feature_cols

----------------------------------------------------------------------------
(* inference/main.py: feature reconstruction *)

InvalidDateDetail == "Invalid date format. Use YYYY-MM-DD"

\* `request.X or request.temp`: truthiness instead of `is not None`.
RollOrDefaultTruthy(supplied, instantaneous) ==
    IF supplied # NoFloat /\ supplied[1] # 0 THEN supplied[1] ELSE instantaneous

\* request.X if request.X is not None else request.<instantaneous reading>
RollOrDefault(supplied, instantaneous) ==
    IF supplied # NoFloat THEN supplied[1] ELSE instantaneous

F(name, val) == [name |-> name, val |-> val]

\* prepare_features: the 1 x 17 vector, or HTTPException(400) on a bad date.
prepare_features(req) ==
    IF ~strptime_ok(req.date)
    THEN [raised |-> TRUE, exc |-> "HTTPException", status |-> 400,
          detail |-> InvalidDateDetail, vec |-> <<>>]
    ELSE
      LET dow         == weekday(req.date.a, req.date.b, req.date.c)
          month       == req.date.b
          temp_range  == req.temp - req.tmin
          heat_index  == req.temp + Half(req.tavg)
          is_peak     == IF PeakFrom <= req.hour /\ req.hour <= PeakTo THEN 1 ELSE 0
          is_weekend  == IF dow \in {5, 6} THEN 1 ELSE 0
          dist_center == Hypot2(req.lat - CenterLat, req.lon - CenterLon)
          temp_roll3  == RollOrDefault(req.temp_roll3, req.temp)
          temp_roll7  == RollOrDefault(req.temp_roll7, req.temp)
          tavg_roll3  == RollOrDefault(req.tavg_roll3, req.tavg)
          tavg_roll7  == RollOrDefault(req.tavg_roll7, req.tavg)
      IN  [raised |-> FALSE, exc |-> "none", status |-> 0, detail |-> "",
           vec |-> << F("temp", req.temp), F("tavg", req.tavg),
                      F("tmin", req.tmin), F("prcp", req.prcp),
                      F("temp_roll3", temp_roll3), F("temp_roll7", temp_roll7),
                      F("tavg_roll3", tavg_roll3), F("tavg_roll7", tavg_roll7),
                      F("temp_range", temp_range), F("heat_index", heat_index),
                      F("is_peak", is_peak), F("is_weekend", is_weekend),
                      F("dist_center", dist_center),
                      F("hour_sin", Sin(req.hour, 24)), F("hour_cos", Cos(req.hour, 24)),
                      F("month_sin", Sin(month, 12)), F("month_cos", Cos(month, 12)) >>]

\* The cuts taken with <= instead of <.
get_risk_level_inclusive(risk_score) ==
    IF risk_score <= LowCut THEN "LOW"
    ELSE IF risk_score <= MediumCut THEN "MEDIUM"
    ELSE IF risk_score <= HighCut THEN "HIGH"
    ELSE "EXTREME"

get_risk_level(risk_score) ==
    IF risk_score < LowCut THEN "LOW"
    ELSE IF risk_score < MediumCut THEN "MEDIUM"
    ELSE IF risk_score < HighCut THEN "HIGH"
    ELSE "EXTREME"

----------------------------------------------------------------------------
(* inference/main.py: the request handlers.  A handler's result is         *)
(*   ep      the endpoint                                                  *)
(*   escaped the exception class that left the handler ("none": returned)  *)
(*   status  the HTTP status (200, or the HTTPException's status_code)     *)
(*   detail  the HTTPException's detail; cause, what was wrapped into it   *)
(*   body    the returned body                                             *)
(*   calls   which of prepare_features / scaler.transform / predict_proba  *)
(*           ran, and vec, the vector handed to predict_proba              *)
(*   seen    the four globals as the handler read them; load, where        *)
(*           load_models stood at that moment.                             *)

NoBody == [kind |-> "none"]
NoResp == [ep |-> "none"]
ProbaRaises == 0 - 1        \* predict_proba raising instead of returning a score

Seen == [model |-> model, feature_list |-> feature_list,
         threshold |-> threshold, scaler |-> scaler]

Result(ep, escaped, status, detail, cause, body, calls, vec) ==
    [ep |-> ep, escaped |-> escaped, status |-> status, detail |-> detail,
     cause |-> cause, body |-> body, calls |-> calls, vec |-> vec,
     seen |-> Seen, load |-> loadpc]

HTTPException(ep, status, detail, cause, calls, vec) ==
    Result(ep, "HTTPException", status, detail, cause, NoBody, calls, vec)

\* The guard left out.
ModelNotLoadedUnchecked == FALSE

\* lines 179 and 209: `if model is None`.
ModelNotLoaded == model = None

\* `except ValueError`: a narrower clause.
CatchesValueErrorOnly(exc) == exc = "ValueError"

\* line 203: `except Exception as e`: the classes the handler's except clause
\* catches.  Everything raised in the try block derives from Exception,
\* fastapi.HTTPException included.
Catches(exc) == TRUE

Exc(exc, status, cause) == [exc |-> exc, status |-> status, cause |-> cause]

\* lines 203-204: a caught exception becomes HTTPException(500, "Prediction
\* error: " + str(e)); one the clause does not catch leaves the handler as it is.
except_clause(e, calls, vec) ==
    IF Catches(e.exc)
    THEN HTTPException("predict", 500, "Prediction error", e.cause, calls, vec)
    ELSE Result("predict", e.exc, IF e.exc = "HTTPException" THEN e.status ELSE 500,
                e.cause, "", NoBody, calls, vec)

\* predict_risk, given whether scaler.transform succeeds and what predict_proba
\* does (a score 0..Scale, or ProbaRaises).
predict_risk(req, scalerOk, proba) ==
    IF ModelNotLoaded
    THEN HTTPException("predict", 500, "Model not loaded", "", {}, <<>>)
    ELSE
      LET f  == prepare_features(req)
          c1 == {"prepare_features"}
          c2 == IF scaler # None THEN c1 \cup {"scaler.transform"} ELSE c1
          c3 == c2 \cup {"predict_proba"}
      IN  IF f.raised
          THEN except_clause(Exc(f.exc, f.status, f.detail), c1, <<>>)
          ELSE IF scaler # None /\ ~scalerOk
          THEN except_clause(Exc("ValueError", 0, "scaler.transform"), c2, <<>>)
          ELSE IF model = None
          THEN except_clause(Exc("AttributeError", 0, "None.predict_proba"), c3, f.vec)
          ELSE IF proba = ProbaRaises
          THEN except_clause(Exc("ValueError", 0, "predict_proba"), c3, f.vec)
          ELSE IF feature_list = None
          THEN except_clause(Exc("TypeError", 0, "len(None)"), c3, f.vec)
          ELSE IF threshold = None
          THEN except_clause(Exc("ValidationError", 0, "threshold=None"), c3, f.vec)
          ELSE Result("predict", "none", 200, "", "",
                      [kind |-> "prediction", risk_score |-> proba,
                       risk_level |-> get_risk_level(proba),
                       threshold |-> threshold,
                       features_used |-> Len(LoadedFeatureNames)],
                      c3, f.vec)

root ==
    Result("root", "none", 200, "", "",
           [kind |-> "root", model_loaded |-> (model # None)], {}, <<>>)

health_check ==
    Result("health", "none", 200, "", "",
           [kind |-> "health", model_loaded |-> (model # None),
            features_count |-> Len(LoadedFeatureNames),
            threshold |-> threshold], {}, <<>>)

model_info ==
    IF ModelNotLoaded
    THEN HTTPException("model-info", 500, "Model not loaded", "", {}, <<>>)
    ELSE Result("model-info", "none", 200, "", "",
                [kind |-> "model-info", features |-> LoadedFeatureNames,
                 threshold |-> threshold, scaler_available |-> (scaler # None)],
                {}, <<>>)

----------------------------------------------------------------------------
(* ML/improved_model.py: the training-time feature engineer *)

\* between(..., inclusive="left").
between_left(x, left, right) == left <= x /\ x < right

\* Series.between(left, right): inclusive on both sides.
between(x, left, right) == left <= x /\ x <= right

\* add_engineered_features on one row; timestamp is [y, m, d, hour].
add_engineered_features(row) ==
    LET hour  == row.timestamp.hour
        dow   == dayofweek(row.timestamp.y, row.timestamp.m, row.timestamp.d)
        month == row.timestamp.m
    IN  [hour        |-> hour,
         dayofweek   |-> dow,
         month       |-> month,
         temp_range  |-> row.temp - row.tmin,
         heat_index  |-> row.temp + Half(row.tavg),
         is_peak     |-> IF between(hour, PeakFrom, PeakTo) THEN 1 ELSE 0,
         is_weekend  |-> IF dow \in {5, 6} THEN 1 ELSE 0,
         dist_center |-> Hypot2(row.lat - CenterLat, row.lon - CenterLon),
         hour_sin    |-> Sin(hour, 24),
         hour_cos    |-> Cos(hour, 24),
         month_sin   |-> Sin(month, 12),
         month_cos   |-> Cos(month, 12)]

\* The features.csv row that carries the raw inputs of a request: the timestamp
\* is the request's date at the request's hour.
TrainingRowOf(req) ==
    [timestamp |-> [y |-> req.date.a, m |-> req.date.b, d |-> req.date.c,
                    hour |-> req.hour],
     lat |-> req.lat, lon |-> req.lon,
     temp |-> req.temp, tavg |-> req.tavg, tmin |-> req.tmin, prcp |-> req.prcp]

NoRow == [hour |-> 0 - 1]

----------------------------------------------------------------------------
(* Requests *)

Date(sep, a, b, c) == [sep |-> sep, a |-> a, b |-> b, c |-> c]

Req(lat, lon, date, hour, t, r) ==
    [lat |-> lat, lon |-> lon, date |-> date, hour |-> hour,
     temp |-> t[1], tavg |-> t[2], tmin |-> t[3], prcp |-> t[4],
     temp_roll3 |-> r[1], temp_roll7 |-> r[2],
     tavg_roll3 |-> r[3], tavg_roll7 |-> r[4]]

Readings == {2 * k : k \in 0..MaxHalfDeg}
Rolls == {NoFloat, Some(0), Some(2 * MaxHalfDeg)}
Scores == 0..Scale

GoodDate == Date("-", 2024, 6, 15)
BadDate == Date("-", 15, 6, 2024)
BaseWeather == <<4, 2, 0, 0>>
NoRolls == <<NoFloat, NoFloat, NoFloat, NoFloat>>
NoRequest == Req(0, 0, Date("", 0, 0, 0), 0, <<0, 0, 0, 0>>, NoRolls)

\* The requests the lifecycle specification sends.
SvcRequests ==
    {Req(CenterLat, CenterLon, d, 14, BaseWeather, NoRolls) : d \in {GoodDate, BadDate}}
SvcScores == {0, Scale}

\* The requests the handler specification draws from: one family per input group.
DateRequests ==
    {Req(CenterLat, CenterLon, Date(sep, y, m, d), 14, BaseWeather, NoRolls) :
        sep \in {"-", "/"}, y \in {15, 2023, 2024}, m \in {2, 12, 13},
        d \in {1, 2, 3, 4, 5, 6, 7, 29, 30}}
HourRequests ==
    {Req(CenterLat, CenterLon, GoodDate, h, BaseWeather, NoRolls) : h \in 0..23}
PlaceRequests ==
    {Req(CenterLat + dlat, CenterLon + dlon, GoodDate, 14, BaseWeather, NoRolls) :
        dlat \in {0 - 300, 0}, dlon \in {0, 400}}
WeatherRequests ==
    {Req(CenterLat, CenterLon, GoodDate, 14, <<t, a, n, p>>, NoRolls) :
        t \in Readings, a \in Readings, n \in Readings, p \in {2}}
RollRequests ==
    {Req(CenterLat, CenterLon, GoodDate, 14, <<4, 2, 0, 0>>, <<r1, r2, r3, r4>>) :
        r1 \in Rolls, r2 \in Rolls, r3 \in Rolls, r4 \in Rolls}
Requests ==
    DateRequests \cup HourRequests \cup PlaceRequests \cup WeatherRequests \cup RollRequests

----------------------------------------------------------------------------
(* ML/improved_model.py main, lines 181-185: one training run persists its *)
(* three artifacts with three joblib.dump calls, one file each.            *)

NoFiles == [model |-> 0, features |-> 0, threshold |-> 0, scaler |-> 0]

\* main up to line 182: the run has chosen `best`, `feats`, `best_thresh`.
FinishTraining ==
    /\ trainer.pc = "idle"
    /\ trainer.run < MaxRuns
    /\ trainer' = [run |-> trainer.run + 1, pc |-> "dump_model"]
    /\ UNCHANGED <<files, srv, loadpc, bundle, request, resp, trainRow, offlineVars>>

Dump(pc, artifact, next) ==
    /\ trainer.pc = pc
    /\ files' = [files EXCEPT ![artifact] = trainer.run]
    /\ trainer' = [trainer EXCEPT !.pc = next]
    /\ UNCHANGED <<srv, loadpc, bundle, request, resp, trainRow, offlineVars>>

DumpModel       == Dump("dump_model", "model", "dump_features")
DumpFeatureList == Dump("dump_features", "features", "dump_threshold")
DumpThreshold   == Dump("dump_threshold", "threshold", "idle")

\* The run ends between two dumps: joblib.dump raises (disk full, no
\* permission) or the process is stopped.
TrainerStops ==
    /\ trainer.pc \in {"dump_features", "dump_threshold"}
    /\ trainer' = [trainer EXCEPT !.pc = "idle"]
    /\ UNCHANGED <<files, srv, loadpc, bundle, request, resp, trainRow, offlineVars>>

----------------------------------------------------------------------------
(* inference/main.py: startup and load_models.  load_models runs inside    *)
(* the startup handler; each joblib.load reads one file, and the training  *)
(* process may write between two reads.                                    *)

\* load_models started in the background: requests are handled while it runs.
AcceptsRequestsDuringStartup == srv \in {"startup", "serving"}

\* lines 149-153: the host raises "startup" and waits for the handler, which
\* returns only after load_models has; requests are handled once it returned.
AcceptsRequests == srv = "serving"

StartupEvent ==
    /\ srv = "boot"
    /\ srv' = "startup"
    /\ loadpc' = "model"
    /\ UNCHANGED <<files, trainer, bundle, request, resp, trainRow, offlineVars>>

\* The app object served by a host that raises no startup event (an ASGI
\* host with lifespan off, a test client used without its context): the
\* globals keep their module-level value None.
ServeWithoutStartup ==
    /\ srv = "boot"
    /\ srv' = "serving"
    /\ UNCHANGED <<files, trainer, loadpc, bundle, request, resp, trainRow, offlineVars>>

\* lines 94-96 and 153: the exception leaves load_models and startup_event;
\* the host reports the failed startup and exits.
LoadRaises ==
    /\ loadpc' = "failed"
    /\ srv' = "exited"

LoadModel ==
    /\ srv = "startup" /\ loadpc = "model"
    /\ IF files.model # 0
       THEN model' = files.model /\ loadpc' = "features" /\ UNCHANGED srv
       ELSE LoadRaises /\ UNCHANGED model
    /\ UNCHANGED <<files, trainer, feature_list, threshold, scaler,
                   request, resp, trainRow, offlineVars>>

LoadFeatureList ==
    /\ srv = "startup" /\ loadpc = "features"
    /\ IF files.features # 0
       THEN feature_list' = files.features /\ loadpc' = "threshold" /\ UNCHANGED srv
       ELSE LoadRaises /\ UNCHANGED feature_list
    /\ UNCHANGED <<files, trainer, model, threshold, scaler,
                   request, resp, trainRow, offlineVars>>

LoadThreshold ==
    /\ srv = "startup" /\ loadpc = "threshold"
    /\ IF files.threshold # 0
       THEN threshold' = files.threshold /\ loadpc' = "scaler" /\ UNCHANGED srv
       ELSE LoadRaises /\ UNCHANGED threshold
    /\ UNCHANGED <<files, trainer, model, feature_list, scaler,
                   request, resp, trainRow, offlineVars>>

\* lines 86-92: a missing scaler is not an error; load_models returns and so
\* does startup_event.
LoadScaler ==
    /\ srv = "startup" /\ loadpc = "scaler"
    /\ scaler' = (IF files.scaler # 0 THEN 1 ELSE None)
    /\ loadpc' = "done"
    /\ srv' = "serving"
    /\ UNCHANGED <<files, trainer, model, feature_list, threshold,
                   request, resp, trainRow, offlineVars>>

----------------------------------------------------------------------------
(* inference/main.py: a request arrives.  The handlers are coroutines that *)
(* never await, so each runs to its end as one step of the event loop.     *)

\* A handler that also cleared the scaler it used.
HandledDroppingScaler(r) ==
    /\ resp' = r
    /\ scaler' = None
    /\ UNCHANGED <<files, trainer, srv, loadpc, model, feature_list, threshold,
                   trainRow, offlineVars>>

Handled(r) ==
    /\ resp' = r
    /\ UNCHANGED <<files, trainer, srv, loadpc, bundle, trainRow, offlineVars>>

GetRoot      == AcceptsRequests /\ Handled(root) /\ UNCHANGED request
GetHealth    == AcceptsRequests /\ Handled(health_check) /\ UNCHANGED request
GetModelInfo == AcceptsRequests /\ Handled(model_info) /\ UNCHANGED request

PostPredict ==
    /\ AcceptsRequests
    /\ \E r \in SvcRequests, ok \in BOOLEAN, p \in SvcScores \cup {ProbaRaises} :
          /\ request' = r
          /\ Handled(predict_risk(r, ok, p))

----------------------------------------------------------------------------
(* The serving process beside the training process *)

\* The dtype of a frame's timestamp column: strings as pd.read_csv leaves
\* them, or datetimes as pd.read_json and pd.to_datetime make them.
Object == "object"
Datetime == "datetime64[ns]"

\* A frame as its caller holds it: the dtype of its timestamp column and the
\* columns a callee has added to it since it was loaded.
Frame(dtype) == [timestamp |-> dtype, added |-> {}]

NoJoin == [by |-> "none", given |-> <<>>, raised |-> "",
           rows |-> <<>>, cover |-> <<>>, final |-> <<>>]
JoinIdle ==
    /\ incidents = <<>> /\ weather = <<>> /\ landcover = <<>>
    /\ frames = [incidents |-> Frame(Datetime), weather |-> Frame(Datetime)]
    /\ joined = NoJoin

NoRolled == [by |-> "none", groups |-> <<>>]
RollIdle == series = <<>> /\ rolled = NoRolled

\* Scores are hundredths; no test row has been scored yet.
Levels == {1, 50, 90, 99}
NoScores == [l \in Levels |-> [pos |-> 0, neg |-> 0]]
NoBest == [threshold |-> 0 - 1]
ThreshIdle == scored = NoScores /\ best = NoBest

EncodeIdle == categories = [train |-> <<>>, test |-> <<>>] /\ encodings = <<>>

\* A row of features.csv, as far as the trainers tell rows apart: its
\* timestamp in days and its binary label.
Stamps == {0, 1, 90, 91, 181}
Kinds == [ts : Stamps, y : {0, 1}]
NoRows == [k \in Kinds |-> 0]
NoXy == [pos |-> 0, neg |-> 0, synthetic |-> 0]
NoRun == [script |-> "none", pc |-> 1, stages |-> <<>>, raised |-> "",
          train_df |-> NoRows, test_df |-> NoRows,
          X |-> NoXy, X_train |-> NoXy, X_test |-> NoXy, X_train_balanced |-> NoXy,
          smote |-> <<>>, fitted_on |-> <<>>, evaluated_on |-> <<>>,
          cv |-> "", scores |-> <<>>, best |-> <<>>, persisted |-> FALSE]
TrainIdle == df = NoRows /\ run = NoRun

\* No joined table has been handed over and no features.csv written.
NoTable == [ready |-> FALSE, rows |-> <<>>]
NotWritten == [written |-> FALSE, rows |-> <<>>]
ExportIdle == final_df = NoTable /\ features = NotWritten

NoSetup == [pc |-> "idle", ml |-> [exists |-> FALSE, files |-> {}], models |-> {},
            copied_files |-> {}, returned |-> FALSE, report |-> "none"]
SetupIdle == setup = NoSetup

\* Nothing of the offline data preparation and training is under way.
OfflineIdle == JoinIdle /\ RollIdle /\ ThreshIdle /\ EncodeIdle /\ TrainIdle /\ ExportIdle
                  /\ SetupIdle

Init ==
    /\ files \in {[NoFiles EXCEPT !.scaler = s] : s \in {0, 1}}
    /\ trainer = [run |-> 0, pc |-> "idle"]
    /\ srv = "boot"
    /\ loadpc = "none"
    /\ model = None /\ feature_list = None /\ threshold = None /\ scaler = None
    /\ request = NoRequest
    /\ resp = NoResp
    /\ trainRow = NoRow
    /\ OfflineIdle

Next ==
    \/ FinishTraining \/ DumpModel \/ DumpFeatureList \/ DumpThreshold
    \/ TrainerStops
    \/ StartupEvent \/ ServeWithoutStartup
    \/ LoadModel \/ LoadFeatureList \/ LoadThreshold \/ LoadScaler
    \/ GetRoot \/ GetHealth \/ GetModelInfo \/ PostPredict

Spec == Init /\ [][Next]_vars

----------------------------------------------------------------------------
(* The handlers as functions of the process state.  The initial states are *)
(* one request and one of the states load_models can leave the globals in: *)
(* never called, raised at the feature list, raised at the threshold,      *)
(* returned without or with a scaler.  Nothing is assumed here about the   *)
(* host stopping after a failed startup: the app object is called in the   *)
(* process as load_models left it.  /predict is then called once, and the  *)
(* training-time engineer is applied once to the row that carries the      *)
(* request's raw inputs.                                                   *)

LoadOutcome(m, f, t, s, pc) ==
    [model |-> m, feature_list |-> f, threshold |-> t, scaler |-> s, loadpc |-> pc]

LoadOutcomes ==
    { LoadOutcome(None, None, None, None, "none"),
      LoadOutcome(1, None, None, None, "failed"),
      LoadOutcome(1, 1, None, None, "failed"),
      LoadOutcome(1, 1, 1, None, "done"),
      LoadOutcome(1, 1, 1, 1, "done") }

InitPredict ==
    /\ request \in Requests
    /\ \E o \in LoadOutcomes :
          /\ model = o.model /\ feature_list = o.feature_list
          /\ threshold = o.threshold /\ scaler = o.scaler
          /\ loadpc = o.loadpc
    /\ files = NoFiles
    /\ trainer = [run |-> 0, pc |-> "idle"]
    /\ srv = "serving"
    /\ resp = NoResp
    /\ trainRow = NoRow
    /\ OfflineIdle

CallPredict ==
    /\ resp = NoResp
    /\ \E ok \in BOOLEAN, p \in Scores \cup {ProbaRaises} :
          Handled(predict_risk(request, ok, p))
    /\ UNCHANGED request

\* improved_model.prepare_features line 82, on the row of the same raw inputs
\* (a features.csv timestamp is always a real date).
EngineerRow ==
    /\ trainRow = NoRow
    /\ strptime_ok(request.date)
    /\ trainRow' = add_engineered_features(TrainingRowOf(request))
    /\ UNCHANGED <<svcVars, bundle, request, resp, offlineVars>>

NextPredict == CallPredict \/ EngineerRow

SpecPredict == InitPredict /\ [][NextPredict]_vars

----------------------------------------------------------------------------
(* Properties of the serving process (Spec) *)

Predicted == resp.ep = "predict"

\* C1 (as claimed): a /predict request whose date does not parse as YYYY-MM-DD
\* is answered with a client error (4xx) carrying the invalid-date message,
\* never with a 5xx, and no prediction is computed.  Stated for a loaded
\* model, where the "Model not loaded" answer is out of the way.
C1_InvalidDateIsClientError ==
    (Predicted /\ resp.seen.model # None /\ ~strptime_ok(request.date))
        => /\ resp.status \in 400..499
           /\ InvalidDateDetail \in {resp.detail, resp.cause}
           /\ "predict_proba" \notin resp.calls

\* C2: whenever a request is handled, load_models either has not run and the
\* four globals are unset, or has returned and model, feature_list and
\* threshold are all set by it; no request is handled while it runs or after
\* it raised.
C2_HandlersSeeWholeBundle ==
    resp.ep # "none"
        => \/ /\ resp.load = "none"
              /\ resp.seen = [model |-> None, feature_list |-> None,
                              threshold |-> None, scaler |-> None]
           \/ /\ resp.load = "done"
              /\ resp.seen.model # None
              /\ resp.seen.feature_list # None
              /\ resp.seen.threshold # None

\* A prediction served from the bundle of a completed startup load.
C2_Witness == Predicted /\ resp.load = "done" /\ resp.status = 200

\* C3: with no model loaded, /predict and /model-info answer with the
\* server-side "Model not loaded" error, and neither feature reconstruction
\* nor predict_proba (nor the scaler) has been called.
C3_NoModelIsUnavailable ==
    (resp.ep \in {"predict", "model-info"} /\ resp.seen.model = None)
        => /\ resp.escaped = "HTTPException"
           /\ resp.status \in 500..599
           /\ resp.detail = "Model not loaded"
           /\ resp.calls = {}
           /\ resp.vec = <<>>

\* /predict called on the process that has loaded nothing.
C3_Witness == Predicted /\ resp.seen.model = None /\ strptime_ok(request.date)

\* C9 (as claimed): what a completed load_models holds is one bundle: model,
\* feature list and threshold of the same training run.
C9_LoadedBundleIsOneRun ==
    loadpc = "done" => (model = feature_list /\ feature_list = threshold)

----------------------------------------------------------------------------
(* Properties of the handlers (SpecPredict) *)

Feature(vec, name) == vec[CHOOSE i \in 1..Len(vec) : vec[i].name = name].val

\* C4: with a model loaded, whatever is raised while /predict reconstructs
\* features, scales, predicts or builds its response leaves the handler as
\* the generic HTTPException(500, "Prediction error: ..."): the handler either
\* returns a prediction or raises exactly that, also when feature_list or
\* threshold is missing.
C4_OnlyPredictionErrorEscapes ==
    (Predicted /\ resp.seen.model # None)
        => \/ resp.escaped = "none" /\ resp.status = 200
           \/ /\ resp.escaped = "HTTPException"
              /\ resp.status = 500
              /\ resp.detail = "Prediction error"

\* The bundle without its feature list: len(feature_list) raised and was wrapped.
C4_Witness ==
    /\ Predicted /\ resp.seen.model # None /\ resp.seen.feature_list = None
    /\ resp.cause = "len(None)" /\ resp.detail = "Prediction error"

\* C5: the tier of a score s in [0,1] is LOW iff s < 0.3, MEDIUM iff
\* 0.3 <= s < 0.6, HIGH iff 0.6 <= s < 0.8, EXTREME iff s >= 0.8: exactly one
\* tier each, the cut itself in the upper tier.
C5_RiskTiers ==
    (Predicted /\ resp.status = 200)
        => LET s == resp.body.risk_score
               l == resp.body.risk_level
           IN  /\ l \in {"LOW", "MEDIUM", "HIGH", "EXTREME"}
               /\ (l = "LOW") <=> (10 * s < 3 * Scale)
               /\ (l = "MEDIUM") <=> (3 * Scale <= 10 * s /\ 10 * s < 6 * Scale)
               /\ (l = "HIGH") <=> (6 * Scale <= 10 * s /\ 10 * s < 8 * Scale)
               /\ (l = "EXTREME") <=> (8 * Scale <= 10 * s)

\* The score 0.3 itself, answered MEDIUM.
C5_Witness ==
    /\ Predicted /\ resp.status = 200
    /\ 10 * resp.body.risk_score = 3 * Scale /\ resp.body.risk_level = "MEDIUM"

\* C6: the vector handed to predict_proba has the length and the field order
\* of the persisted feature-name list, and features_used in the response is
\* the length of that vector.
C6_VectorMatchesFeatureList ==
    (Predicted /\ "predict_proba" \in resp.calls /\ resp.seen.feature_list # None)
        => /\ Len(resp.vec) = Len(feature_cols)
           /\ \A i \in 1..Len(resp.vec) : resp.vec[i].name = feature_cols[i]
           /\ resp.status = 200 => resp.body.features_used = Len(resp.vec)

\* A served prediction reporting its 17 features.
C6_Witness ==
    /\ Predicted /\ resp.status = 200
    /\ resp.body.features_used = 17 /\ Len(resp.vec) = 17

EngineeredNames ==
    {"temp_range", "heat_index", "is_peak", "is_weekend", "dist_center",
     "hour_sin", "hour_cos", "month_sin", "month_cos"}

\* The Saturdays and Sundays among the dates drawn, from the calendar.
CalendarWeekends ==
    { <<2023, 2, 4>>, <<2023, 2, 5>>, <<2023, 12, 2>>, <<2023, 12, 3>>,
      <<2023, 12, 30>>, <<2024, 2, 3>>, <<2024, 2, 4>>, <<2024, 12, 1>>,
      <<2024, 12, 7>>, <<2024, 12, 29>>, <<2024, 6, 15>> }

\* C7: from the raw inputs of a training row the service computes the
\* engineered values the training-time engineer computed for that row:
\* temp_range, heat_index, is_peak (hour in 10..17, both ends included),
\* is_weekend (Saturday or Sunday, Monday = 0), dist_center and the hour and
\* month encodings.
C7_InferenceMatchesTraining ==
    (Predicted /\ resp.vec # <<>> /\ trainRow # NoRow)
        => /\ \A n \in EngineeredNames : Feature(resp.vec, n) = trainRow[n]
           /\ (trainRow.is_peak = 1) <=> (request.hour \in 10..17)
           /\ (trainRow.is_weekend = 1)
                 <=> (<<request.date.a, request.date.b, request.date.c>>
                         \in CalendarWeekends)

\* Both sides computed for a weekend day at the last peak hour.
C7_Witness ==
    /\ Predicted /\ resp.vec # <<>> /\ trainRow # NoRow
    /\ trainRow.is_weekend = 1 /\ request.hour = 17 /\ trainRow.is_peak = 1

\* C8: each rolling feature in the vector is the value the request supplied,
\* a supplied 0 included, and otherwise the instantaneous reading of the same
\* quantity: temp for temp_roll3 and temp_roll7, tavg for tavg_roll3 and
\* tavg_roll7.
C8_RollingDefaults ==
    (Predicted /\ resp.vec # <<>>)
        => \A n \in {"temp_roll3", "temp_roll7", "tavg_roll3", "tavg_roll7"} :
              LET base == IF n \in {"temp_roll3", "temp_roll7"} THEN "temp" ELSE "tavg"
              IN  Feature(resp.vec, n) =
                     IF request[n] = NoFloat THEN request[base] ELSE request[n][1]

\* A supplied 0 beside a rolling value left out, the readings not 0.
C8_Witness ==
    /\ Predicted /\ resp.vec # <<>>
    /\ request.temp_roll3 = Some(0) /\ request.temp # 0
    /\ request.tavg_roll7 = NoFloat /\ request.tavg # 0
    /\ Feature(resp.vec, "temp_roll3") = 0

----------------------------------------------------------------------------
(* The joins of ML/data_preparation.spatial_temporal_join and of            *)
(* ML/prep_data.preprocess: nearest weather point, landcover polygon, and   *)
(* weather in time.  A coordinate is a whole number of 0.05-degree steps; a *)
(* distance is kept as its square; a timestamp is a whole number of half    *)
(* hours.  A joined row names its sources by position in the caller's       *)
(* tables: left the incident, right the nearest weather record, poly the    *)
(* landcover polygon, wx the weather record matched in time; 0 is a null    *)
(* match.                                                                   *)

MaxPolygons == 2
MaxDistance == 1        \* prep_data.py: max_distance=0.05, one step
NoCutoff == 0 - 1
HourLen == 2            \* half hours in dt.floor('H')
DayLen == 48            \* half hours in dt.floor('D')

Pt(x, y) == [x |-> x, y |-> y]
Points == {Pt(0, 0), Pt(1, 0), Pt(1, 1)}
Times == {0, 1}

Dist2(p, q) == Hypot2(p.x - q.x, p.y - q.y)

RECURSIVE Concat(_)
Concat(ss) == IF ss = <<>> THEN <<>> ELSE Head(ss) \o Concat(Tail(ss))

RECURSIVE Ascending(_)
Ascending(S) ==
    IF S = {} THEN <<>>
    ELSE LET m == CHOOSE a \in S : \A b \in S : a <= b
         IN  <<m>> \o Ascending(S \ {m})

\* The right rows sjoin_nearest pairs with a left point: every right geometry
\* at the least distance (within max_distance when one is given), not one of
\* them; none when the right table is empty or all of it lies beyond the cutoff.
NearestRight(p, geoms, cutoff) ==
    LET near == {j \in 1..Len(geoms) :
                    cutoff = NoCutoff \/ Dist2(p, geoms[j]) <= cutoff * cutoff}
    IN  {j \in near : \A k \in near : Dist2(p, geoms[j]) <= Dist2(p, geoms[k])}

\* how='inner': a left row with no match is dropped.
sjoin_nearest_inner(left, geoms, cutoff) ==
    Concat([i \in 1..Len(left) |->
        LET hit == Ascending(NearestRight(left[i].pt, geoms, cutoff))
        IN  [k \in 1..Len(hit) |-> [left |-> i, right |-> hit[k]]]])

\* how='left': a left row with no match is kept once, with a null match.
sjoin_nearest(left, geoms, cutoff) ==
    Concat([i \in 1..Len(left) |->
        LET hit == Ascending(NearestRight(left[i].pt, geoms, cutoff))
        IN  IF hit = <<>> THEN << [left |-> i, right |-> 0] >>
            ELSE [k \in 1..Len(hit) |-> [left |-> i, right |-> hit[k]]]])

\* data_preparation.py lines 168-175: every weather record gets the one
\* geometry of the city centre, whatever the record.
CentreGeometry == [j \in 1..Len(weather) |-> Pt(0, 0)]

\* prep_data.py lines 51-55: a weather record's geometry is its own lon, lat.
OwnGeometry == [j \in 1..Len(weather) |-> weather[j].pt]

\* gpd.sjoin(left, polys, how='left', predicate='intersects'): a left row is
\* paired with every polygon its point lies in, in the polygons' order, one
\* output row per pair; a left row in no polygon is kept once, with a null
\* polygon.  A polygon is the set of grid points it covers.
sjoin(left, polys) ==
    Concat([r \in 1..Len(left) |->
        LET p   == incidents[left[r].left].pt
            hit == Ascending({j \in 1..Len(polys) : p \in polys[j].covers})
        IN  IF hit = <<>>
            THEN << [left |-> left[r].left, right |-> left[r].right, poly |-> 0] >>
            ELSE [k \in 1..Len(hit) |->
                    [left |-> left[r].left, right |-> left[r].right,
                     poly |-> hit[k]]]])

\* Series.dt.floor('H') and .dt.floor('D') of a timestamp.
dt_floor(t, unit) == t - (t % unit)

\* The positions of a column in sorted order, as sort_values returns the rows:
\* ascending, rows of equal key in their order of arrival.
sort_values(keys) ==
    LET n == Len(keys)
        rank(i) == Cardinality({j \in 1..n :
                                   keys[j] < keys[i]
                                      \/ (keys[j] = keys[i] /\ j < i)}) + 1
    IN  [r \in 1..n |-> CHOOSE i \in 1..n : rank(i) = r]

\* An asof join that takes the first right key that is <= the left key.
merge_asof_first(leftKeys, rightKeys) ==
    [i \in 1..Len(leftKeys) |->
        LET ok == {k \in 1..Len(rightKeys) : rightKeys[k] <= leftKeys[i]}
        IN  IF ok = {} THEN 0 ELSE CHOOSE k \in ok : \A m \in ok : k <= m]

\* pd.merge_asof(direction='backward') over two ascending key columns: for
\* each left key the position of the last right key that is <= it, 0 when
\* every right key is greater.
merge_asof(leftKeys, rightKeys) ==
    [i \in 1..Len(leftKeys) |->
        LET ok == {k \in 1..Len(rightKeys) : rightKeys[k] <= leftKeys[i]}
        IN  IF ok = {} THEN 0 ELSE CHOOSE k \in ok : \A m \in ok : m <= k]

Column(rows, order) == [k \in 1..Len(order) |-> rows[order[k]]]

\* DataFrame.sort_values(col): the rows in the order of their keys.
SortedBy(rows, keys) == Column(rows, sort_values(keys))

TimeOf(rows) == [i \in 1..Len(rows) |-> rows[i].time]

\* The floored hour of each weather record named in wx (positions in the
\* caller's weather table), and of the incident of each joined row.
WeatherHour(wx) == [k \in 1..Len(wx) |-> dt_floor(weather[wx[k]].time, HourLen)]
IncidentHour(rows) ==
    [r \in 1..Len(rows) |-> dt_floor(incidents[rows[r].left].time, HourLen)]

WithWx(row, j) == [left |-> row.left, right |-> row.right, poly |-> row.poly, wx |-> j]

\* prep_data.py lines 71-75: left the incident rows sorted by their floored
\* hour, right the weather records sorted by theirs; each incident row takes
\* the last weather record whose hour is <= its own.
asof_by_hour(left, right) ==
    LET match == merge_asof(IncidentHour(left), WeatherHour(right))
    IN  [i \in 1..Len(left) |->
            WithWx(left[i], IF match[i] = 0 THEN 0 ELSE right[match[i]])]

\* data_preparation.py lines 216-226: pd.merge(on='date', how='left') of the
\* incident rows with the weather table, both floored to the day: a row is
\* paired with every weather record of its day, and kept once with a null
\* match when its day has none.
merge_on_date(cover) ==
    Concat([r \in 1..Len(cover) |->
        LET day == dt_floor(incidents[cover[r].left].time, DayLen)
            hit == Ascending({j \in 1..Len(weather) :
                                 dt_floor(weather[j].time, DayLen) = day})
        IN  IF hit = <<>> THEN << WithWx(cover[r], 0) >>
            ELSE [k \in 1..Len(hit) |-> WithWx(cover[r], hit[k])]])

\* gpd.GeoDataFrame(df, geometry=...) wraps the caller's frame; whether the
\* wrapper shares the caller's columns (so that a column set on the wrapper
\* shows in the caller's frame) depends on the pandas build.
Added(frame, shares, cols) ==
    [frame EXCEPT !.added = IF shares THEN @ \cup cols ELSE @]

\* data_preparation.spatial_temporal_join, lines 161-232.  The weather table
\* comes from load_bangalore_weather, its time column parsed; a string
\* timestamp column of the incidents has no .dt accessor at line 216.
JoinDataPreparation ==
    /\ joined.by = "none"
    /\ frames.weather.timestamp = Datetime
    /\ \E shares \in BOOLEAN :
       \E rows \in {sjoin_nearest(incidents, CentreGeometry, NoCutoff)} :
       \E cover \in {sjoin(rows, landcover)} :
          LET raises == frames.incidents.timestamp # Datetime
          IN  /\ joined' = [by |-> "data_preparation", given |-> frames,
                            raised |-> IF raises THEN "AttributeError" ELSE "",
                            rows |-> rows, cover |-> cover,
                            final |-> IF raises THEN <<>> ELSE merge_on_date(cover)]
              /\ frames' = [incidents |-> Added(frames.incidents, shares, {"geometry"}),
                            weather |-> Added(frames.weather, shares,
                                              IF raises THEN {"geometry"}
                                              ELSE {"geometry", "date"})]
    /\ UNCHANGED <<notJoin, incidents, weather, landcover>>

\* prep_data.preprocess, lines 47-85.  The weather table comes from
\* load_weather_data, its timestamp column still strings; lines 48-49 assign
\* the parsed column to the caller's own frames.  The weather is sorted by
\* timestamp (line 65) and again by floored hour (line 73), the incident rows
\* by floored hour (line 72).
JoinPrepData ==
    /\ joined.by = "none"
    /\ frames.weather.timestamp = Object
    /\ \E shares \in BOOLEAN :
       \E rows \in {sjoin_nearest(incidents, OwnGeometry, MaxDistance)} :
       \E cover \in {sjoin(rows, landcover)} :
       \E byTime \in {sort_values(TimeOf(weather))} :
       \E right \in {SortedBy(byTime, WeatherHour(byTime))} :
       \E left \in {SortedBy(cover, IncidentHour(cover))} :
          /\ joined' = [by |-> "prep_data", given |-> frames, raised |-> "",
                        rows |-> rows, cover |-> cover,
                        final |-> asof_by_hour(left, right)]
          /\ frames' = [incidents |-> Added([frames.incidents EXCEPT
                                                !.timestamp = Datetime],
                                            shares, {"geometry"}),
                        weather |-> Added([frames.weather EXCEPT
                                              !.timestamp = Datetime],
                                          shares, {"geometry"})]
    /\ UNCHANGED <<notJoin, incidents, weather, landcover>>

\* A missing cell: NaN in a numeric column, NaN or None in a column of strings.
NaN == 0 - 1
Missing == "NaN"

\* A number as a cell of the exported table: a fraction, so that a column
\* mean is exact; no denominator, no number.
Cell(v) == [num |-> v, den |-> 1]
NaNCell == [num |-> 0, den |-> 0]

\* main, step 4: the joined table with the columns add_temporal_features
\* derives from the timestamp (season among them, never missing) goes to
\* clean_and_export_features.  Of the joined table's columns a row keeps here
\* its incident and its day, incident_type, landcover_type (missing when no
\* polygon holds the point) and temp: the unsuffixed column, which
\* sjoin_nearest brought from the weather record `right`, the merge on date
\* having named its own temp_weather.
AddTemporalFeatures ==
    /\ joined.by = "data_preparation" /\ joined.raised = ""
    /\ ~final_df.ready
    /\ final_df' =
          [ready |-> TRUE,
           rows  |-> [i \in 1..Len(joined.final) |->
                LET r == joined.final[i]
                IN  [incident |-> r.left,
                     day |-> dt_floor(incidents[r.left].time, DayLen) \div DayLen,
                     incident_type |-> "heat_stroke",
                     season |-> "summer",
                     landcover_type |-> IF r.poly = 0 THEN Missing
                                        ELSE landcover[r.poly].landcover_type,
                     temp |-> IF r.right = 0 THEN NaN ELSE r.right,
                     source |-> r.right]]]
    /\ UNCHANGED <<features, notExport>>

RECURSIVE SumTemp(_, _)
SumTemp(rows, n) ==
    IF n = 0 THEN 0
    ELSE (IF rows[n].temp = NaN THEN 0 ELSE rows[n].temp) + SumTemp(rows, n - 1)

\* final_features[numeric_columns].mean(): the mean of the cells that hold a
\* number, over all the rows of the table; NaN when none does.
column_mean(rows) ==
    LET nobs == Cardinality({i \in 1..Len(rows) : rows[i].temp # NaN})
    IN  IF nobs = 0 THEN NaNCell ELSE [num |-> SumTemp(rows, Len(rows)), den |-> nobs]

\* select_dtypes(include=['object']): a column of strings.  incident_type as
\* read from a file is such a column when any of its cells holds a string;
\* with every cell empty the reader makes it a column of NaN floats.  season
\* is mapped from the month, landcover_type joined from a column of strings.
ObjectColumns(rows) ==
    {"season", "landcover_type"}
        \cup (IF \E i \in 1..Len(rows) : rows[i].incident_type # Missing
              THEN {"incident_type"} ELSE {})

\* dropna(subset=categorical_columns): a row is kept when none of its cells
\* in the subset's columns is missing.
Kept(row, subset) ==
    /\ "incident_type" \in subset => row.incident_type # Missing
    /\ "season" \in subset => row.season # Missing
    /\ "landcover_type" \in subset => row.landcover_type # Missing

\* clean_and_export_features, lines 279-289: missing numbers are filled with
\* the column mean, then rows with a missing string are dropped.  temp stands
\* for every numeric column.
clean_and_export_features(rows) ==
    LET fill   == column_mean(rows)
        filled == [i \in 1..Len(rows) |->
                     [incident |-> rows[i].incident, day |-> rows[i].day,
                      incident_type |-> rows[i].incident_type,
                      season |-> rows[i].season,
                      landcover_type |-> rows[i].landcover_type,
                      source |-> rows[i].source,
                      was_missing |-> rows[i].temp = NaN,
                      temp |-> IF rows[i].temp = NaN THEN fill ELSE Cell(rows[i].temp)]]
        IsKept(row) == Kept(row, ObjectColumns(rows))
    IN  SelectSeq(filled, IsKept)

\* main, step 5: features.csv is written.
CleanAndExportFeatures ==
    /\ final_df.ready /\ ~features.written
    /\ features' = [written |-> TRUE, rows |-> clean_and_export_features(final_df.rows)]
    /\ UNCHANGED <<final_df, notExport>>

Rows == {[pt |-> p, time |-> t] : p \in Points, t \in Times}

Tables(n) == UNION {[1..k -> Rows] : k \in 0..n}

\* The weather table holds one record per (location, timestamp).
OnePerPlaceAndTime(t) == \A i, j \in 1..Len(t) : t[i] = t[j] => i = j

\* Landcover polygons: one over the whole grid, and two that overlap in the
\* grid point (1, 0).
City  == [landcover_type |-> "urban", covers |-> Points]
West  == [landcover_type |-> "vegetation", covers |-> {Pt(0, 0), Pt(1, 0)}]
East  == [landcover_type |-> "water", covers |-> {Pt(1, 0), Pt(1, 1)}]

Landcovers(n) ==
    {t \in UNION {[1..k -> {West, East}] : k \in 0..n} :
        \A i, j \in 1..Len(t) : t[i] = t[j] => i = j}

\* Timestamps of one place: two in one clock hour, one in the next hour, one
\* on the next day.
Instants == {0, 1, HourLen, DayLen}

At(S, place) == UNION {[1..k -> {[pt |-> place, time |-> t] : t \in S}] : k \in 0..MaxIncidents}

\* The frames as the loaders hand them over: the incidents read from CSV
\* (strings) or JSON (datetimes), the weather from prep_data's read_csv
\* (strings) or data_preparation's load_bangalore_weather (datetimes).
LoadedFrames(incidentTypes) ==
    {[incidents |-> Frame(a), weather |-> Frame(b)] :
        a \in incidentTypes, b \in {Object, Datetime}}

\* Incidents and weather anywhere on the grid, under one polygon.
NearestInputs ==
    /\ incidents \in {t \in Tables(MaxIncidents) : \A i \in 1..Len(t) : t[i].time = 0}
    /\ weather \in {t \in Tables(MaxWeather) : OnePerPlaceAndTime(t)}
    /\ landcover = <<City>>
    /\ frames \in LoadedFrames({Datetime})

\* Incidents anywhere on the grid, one weather record, any polygon table.
CoverInputs ==
    /\ incidents \in {t \in Tables(MaxIncidents) : \A i \in 1..Len(t) : t[i].time = 0}
    /\ weather = << [pt |-> Pt(0, 0), time |-> 0] >>
    /\ landcover \in Landcovers(MaxPolygons)
    /\ frames \in LoadedFrames({Object, Datetime})

\* Incidents and weather of one place at any of the instants.
AsofInputs ==
    /\ incidents \in At(Instants, Pt(0, 0))
    /\ weather \in {t \in At(Instants, Pt(0, 0)) :
                       Len(t) <= MaxWeather /\ OnePerPlaceAndTime(t)}
    /\ landcover = <<City>>
    /\ frames \in LoadedFrames({Object, Datetime})

InitJoin ==
    /\ NearestInputs \/ CoverInputs \/ AsofInputs
    /\ joined = NoJoin
    /\ RollIdle /\ ThreshIdle /\ EncodeIdle /\ TrainIdle /\ ExportIdle /\ SetupIdle
    /\ files = NoFiles
    /\ trainer = [run |-> 0, pc |-> "idle"]
    /\ srv = "boot"
    /\ loadpc = "none"
    /\ model = None /\ feature_list = None /\ threshold = None /\ scaler = None
    /\ request = NoRequest
    /\ resp = NoResp
    /\ trainRow = NoRow

NextJoin ==
    \/ JoinDataPreparation
    \/ JoinPrepData
    \/ AddTemporalFeatures
    \/ CleanAndExportFeatures

SpecJoin == InitJoin /\ [][NextJoin]_vars

\* C10 (as claimed): the nearest-point join returns exactly one row per
\* incident, in the incidents' order, so the joined table has as many rows as
\* there are incidents; of several weather points at the same least distance
\* the first in input order is the one matched.
C10_OneRowPerIncident ==
    joined.by # "none"
        => /\ Len(joined.rows) = Len(incidents)
           /\ \A i \in 1..Len(joined.rows) : joined.rows[i].left = i

\* C11 (as claimed): the polygon join returns exactly one row for every row
\* it is given: with a null polygon when no polygon contains the incident's
\* point, and otherwise with the first polygon, in the polygons' input order,
\* that contains it; overlapping polygons add no rows.
C11_OneRowPerPoint ==
    (joined.by # "none" /\ joined.raised = "")
        => /\ Len(joined.cover) = Len(joined.rows)
           /\ \A r \in 1..Len(joined.cover) :
                 LET p   == incidents[joined.rows[r].left].pt
                     hit == {j \in 1..Len(landcover) : p \in landcover[j].covers}
                 IN  /\ joined.cover[r].left = joined.rows[r].left
                     /\ joined.cover[r].poly =
                            IF hit = {} THEN 0
                            ELSE CHOOSE j \in hit : \A k \in hit : j <= k

C20_InputsUntouched ==
    (joined.by # "none" /\ joined.raised = "")
        => frames = joined.given

----------------------------------------------------------------------------
(* The rolling aggregator: Series.rolling(window, min_periods=1).mean() as  *)
(* ML/data_preparation.compute_rolling_averages applies it to the whole     *)
(* weather table and ML/improved_model.add_rolling_features to each         *)
(* location's rows.  An observation is [loc, time, temp]; a mean is kept as *)
(* the fraction [num, den].                                                 *)

MaxSeries == 4
MaxWindow == 7

Mean(sum, nobs) == [num |-> sum, den |-> nobs]
SameMean(a, b) == a.num * b.den = b.num * a.den

\* The observations that leave a window of W records when record i enters.
LeavingNever(xs, W, i) == <<>>
Leaving(xs, W, i) == IF i > W THEN << xs[i - W] >> ELSE <<>>

\* The window's running sum and count after record i has entered: one pass
\* over the ordered values, each added as it enters and removed as it leaves.
RECURSIVE roll_sum(_, _, _)
roll_sum(xs, W, i) ==
    IF i = 0 THEN [sum |-> 0, nobs |-> 0]
    ELSE LET prev == roll_sum(xs, W, i - 1)
             out  == Leaving(xs, W, i)
         IN  [sum  |-> prev.sum + xs[i] - (IF out = <<>> THEN 0 ELSE out[1]),
              nobs |-> prev.nobs + 1 - Len(out)]

\* rolling(W, min_periods=1).mean(): a value wherever the window holds at
\* least one observation, which is everywhere.
rolling_mean(xs, W) ==
    [i \in 1..Len(xs) |->
        LET w == roll_sum(xs, W, i) IN Mean(w.sum, w.nobs)]

LocOf(rows)  == [i \in 1..Len(rows) |-> rows[i].loc]
TempOf(rows) == [i \in 1..Len(rows) |-> rows[i].temp]

\* One ordered group of rows with its rolling means, a column per window.
Rolled(rows, windows) ==
    [rows |-> rows, xs |-> TempOf(rows),
     out |-> [w \in windows |-> rolling_mean(TempOf(rows), w)]]

\* data_preparation.compute_rolling_averages, lines 66-81: the table sorted
\* by time, then one 3-record window over the whole of it.
ComputeRollingAverages ==
    /\ rolled.by = "none"
    /\ \E sorted \in {SortedBy(series, TimeOf(series))} :
          rolled' = [by |-> "data_preparation",
                     groups |-> << Rolled(sorted, {3}) >>]
    /\ UNCHANGED <<notRoll, series>>

\* improved_model.add_rolling_features, lines 41-59: the table sorted by
\* location and timestamp, then windows of 3 and of 7 records over each
\* location's rows.
AddRollingFeatures ==
    /\ rolled.by = "none"
    /\ \E byTime \in {SortedBy(series, TimeOf(series))} :
       \E sorted \in {SortedBy(byTime, LocOf(byTime))} :
       \E locs \in {Ascending({sorted[k].loc : k \in 1..Len(sorted)})} :
          rolled' = [by |-> "improved_model",
                     groups |-> [g \in 1..Len(locs) |->
                         LET Here(r) == r.loc = locs[g]
                         IN  Rolled(SelectSeq(sorted, Here), {3, 7})]]
    /\ UNCHANGED <<notRoll, series>>

\* prep_data.preprocess, lines 65-68: the weather table, a record per grid
\* point and timestamp, sorted by timestamp, then one window of 72 records
\* over the whole of it.
PrepDataRolling ==
    /\ rolled.by = "none"
    /\ \E sorted \in {SortedBy(series, TimeOf(series))} :
          rolled' = [by |-> "prep_data",
                     groups |-> << Rolled(sorted, {72}) >>]
    /\ UNCHANGED <<notRoll, series>>

\* improved_model_training.enhanced_feature_engineering, lines 78-79: one
\* window of 7 records over the rows of features.csv in the order of the file.
EnhancedRolling ==
    /\ rolled.by = "none"
    /\ rolled' = [by |-> "improved_model_training",
                  groups |-> << Rolled(series, {7}) >>]
    /\ UNCHANGED <<notRoll, series>>

Observations == {[loc |-> l, time |-> t, temp |-> x] :
                    l \in {0, 1}, t \in {0, 1}, x \in {0, 1}}

InitRolling ==
    /\ series \in UNION {[1..n -> Observations] : n \in 0..MaxSeries}
    /\ rolled = NoRolled
    /\ JoinIdle /\ ThreshIdle /\ EncodeIdle /\ TrainIdle /\ ExportIdle /\ SetupIdle
    /\ files = NoFiles
    /\ trainer = [run |-> 0, pc |-> "idle"]
    /\ srv = "boot"
    /\ loadpc = "none"
    /\ model = None /\ feature_list = None /\ threshold = None /\ scaler = None
    /\ request = NoRequest
    /\ resp = NoResp
    /\ trainRow = NoRow

NextRolling ==
    \/ ComputeRollingAverages
    \/ AddRollingFeatures
    \/ PrepDataRolling
    \/ EnhancedRolling

SpecRolling == InitRolling /\ [][NextRolling]_vars

RECURSIVE SumOver(_, _, _)
SumOver(xs, lo, hi) == IF lo > hi THEN 0 ELSE xs[hi] + SumOver(xs, lo, hi - 1)

\* What is claimed of one ordered sequence xs, its output out and window W
\* (positions counted from 1).
RollingContract(xs, out, W) ==
    /\ Len(out) = Len(xs)
    /\ \A i \in 1..Len(xs) :
          LET lo == IF i - W + 1 > 1 THEN i - W + 1 ELSE 1
          IN  SameMean(out[i], Mean(SumOver(xs, lo, i), i - lo + 1))
    /\ Len(xs) > 0 => SameMean(out[1], Mean(xs[1], 1))
    /\ W = 1 => \A i \in 1..Len(xs) : SameMean(out[i], Mean(xs[i], 1))

\* C13: for every ordered sequence the aggregator is given (the whole sorted
\* table in data_preparation, each location's sorted rows in improved_model)
\* and every window W >= 1, the output is as long as the input, output[i] is
\* the mean of the inputs at positions max(first, i-W+1)..i, the first output
\* is the first input, and for W = 1 the output is the input.
C13_RollingMean ==
    \A g \in 1..Len(rolled.groups) :
        LET xs == rolled.groups[g].xs
        IN  /\ \A w \in DOMAIN rolled.groups[g].out :
                  RollingContract(xs, rolled.groups[g].out[w], w)
            /\ \A W \in 1..MaxWindow :
                  RollingContract(xs, rolling_mean(xs, W), W)

\* A sequence longer than its window: a 3-record window over 4 records whose
\* first differs from the rest, so that the mean at the end leaves it out.
C13_Witness ==
    \E g \in 1..Len(rolled.groups) :
        LET xs == rolled.groups[g].xs
        IN  /\ Len(xs) = 4 /\ xs[1] = 1 /\ xs[2] = 0 /\ xs[3] = 0 /\ xs[4] = 0
            /\ rolled.groups[g].out[3][4] = Mean(0, 3)
            /\ rolled.groups[g].out[3][1] = Mean(1, 1)

----------------------------------------------------------------------------
(* Threshold selection: ML/improved_model.find_best_threshold on the test   *)
(* labels and the scores the fitted model gives the test rows.  A score is  *)
(* a whole number of hundredths; precision, recall and F1 are kept as the   *)
(* counts they are ratios of: tp true positives among pp rows predicted     *)
(* positive, of P positives in all.                                         *)

MaxSamples == 6
ThresholdLo == 5            \* 0.05
ThresholdHi == 95           \* 0.95
DefaultThreshold == 50      \* 0.5

Positives(sc) == LET RECURSIVE Sum(_)
                     Sum(S) == IF S = {} THEN 0
                               ELSE LET l == CHOOSE l \in S : TRUE
                                    IN  sc[l].pos + Sum(S \ {l})
                 IN  Sum(Levels)
Samples(sc) == LET RECURSIVE Sum(_)
                   Sum(S) == IF S = {} THEN 0
                             ELSE LET l == CHOOSE l \in S : TRUE
                                  IN  sc[l].pos + sc[l].neg + Sum(S \ {l})
               IN  Sum(Levels)

\* The rows scored at least t: how many, and how many of them positive.
AtLeast(sc, t) ==
    LET above == [l \in Levels |-> IF l >= t THEN sc[l] ELSE [pos |-> 0, neg |-> 0]]
    IN  [t |-> t, tp |-> Positives(above), pp |-> Samples(above), P |-> Positives(sc)]

\* sklearn precision_recall_curve: one candidate per distinct score, in
\* ascending order, with the precision tp/pp and recall tp/P of predicting
\* positive at or above it.  Builds of sklearn before 1.1 drop the
\* candidates below the highest one that already reaches full recall.
precision_recall_curve(sc, trims) ==
    LET all  == {l \in Levels : sc[l].pos + sc[l].neg > 0}
        full == {l \in all : AtLeast(sc, l).tp = Positives(sc)}
        kept == IF trims THEN {l \in all : \A f \in full : l >= f} ELSE all
        t    == Ascending(kept)
    IN  [k \in 1..Len(t) |-> AtLeast(sc, t[k])]

InRangeNoUpper(t) == t >= ThresholdLo
\* mask = (t >= 0.05) & (t <= 0.95)
InRange(t) == t >= ThresholdLo /\ t <= ThresholdHi

\* F1 = 2pr/(p+r) = 2tp/(pp+P), as the fraction [num, den].
F1(c) == [num |-> 2 * c.tp, den |-> c.pp + c.P]

\* a's value of 2*(p*r)/(p+r+1e-9) is less than b's.  The 1e-9 is far
\* smaller than the gap between two different F1 values of a test set, so
\* the greater F1 is the greater value; of two equal F1 values the one with
\* the greater p+r = tp*(pp+P)/(pp*P) is divided down less and is greater;
\* with tp = 0 the value is 0.
f1_less(a, b) ==
    \/ F1(a).num * F1(b).den < F1(b).num * F1(a).den
    \/ /\ F1(a).num * F1(b).den = F1(b).num * F1(a).den
       /\ a.tp * (a.pp + a.P) * b.pp < b.tp * (b.pp + b.P) * a.pp

\* np.argmax: the first position no other position beats.
argmax(cs) ==
    CHOOSE i \in 1..Len(cs) :
        /\ \A j \in 1..Len(cs) : ~f1_less(cs[i], cs[j])
        /\ \A j \in 1..(i - 1) : f1_less(cs[j], cs[i])

\* improved_model.find_best_threshold, lines 109-117.
find_best_threshold(sc, trims) ==
    LET Masked(c) == InRange(c.t)
        cs == SelectSeq(precision_recall_curve(sc, trims), Masked)
    IN  IF cs = <<>>
        THEN [threshold |-> DefaultThreshold, f1 |-> [num |-> 0, den |-> 1],
              candidates |-> cs]
        ELSE [threshold |-> cs[argmax(cs)].t, f1 |-> F1(cs[argmax(cs)]),
              candidates |-> cs]

\* improved_model.evaluate_model line 129: the fitted model scores one more
\* test row.
ScoreTestRow ==
    /\ best = NoBest
    /\ Samples(scored) < MaxSamples
    /\ \E l \in Levels, y \in {"pos", "neg"} :
          scored' = [scored EXCEPT ![l][y] = @ + 1]
    /\ UNCHANGED <<notThresh, best>>

\* improved_model.evaluate_model line 130, on a test set that holds a
\* positive row.
FindBestThreshold ==
    /\ best = NoBest
    /\ Positives(scored) > 0
    /\ \E trims \in BOOLEAN : best' = find_best_threshold(scored, trims)
    /\ UNCHANGED <<notThresh, scored>>

InitThreshold ==
    /\ scored = NoScores /\ best = NoBest
    /\ JoinIdle /\ RollIdle /\ EncodeIdle /\ TrainIdle /\ ExportIdle /\ SetupIdle
    /\ files = NoFiles
    /\ trainer = [run |-> 0, pc |-> "idle"]
    /\ srv = "boot"
    /\ loadpc = "none"
    /\ model = None /\ feature_list = None /\ threshold = None /\ scaler = None
    /\ request = NoRequest
    /\ resp = NoResp
    /\ trainRow = NoRow

NextThreshold == ScoreTestRow \/ FindBestThreshold

SpecThreshold == InitThreshold /\ [][NextThreshold]_vars

SameF1(a, b) == F1(a).num * F1(b).den = F1(b).num * F1(a).den
LessF1(a, b) == F1(a).num * F1(b).den < F1(b).num * F1(a).den

\* The candidates in range whose F1 no candidate in range exceeds.
MaxF1(cs) == {i \in 1..Len(cs) : \A j \in 1..Len(cs) : ~LessF1(cs[i], cs[j])}

\* C14 (as claimed): the threshold returned is the lowest of the candidate
\* thresholds in [0.05, 0.95] whose F1 is maximal, returned with that F1;
\* (0.5, 0.0) when no candidate lies in the range; always in [0.05, 0.95].
C14_LowestBestThreshold ==
    best # NoBest =>
        LET cs == best.candidates
        IN  /\ best.threshold >= ThresholdLo /\ best.threshold <= ThresholdHi
            /\ cs = <<>> => best.threshold = DefaultThreshold /\ best.f1.num = 0
            /\ cs # <<>> =>
                  \E i \in MaxF1(cs) :
                      /\ \A j \in MaxF1(cs) : i <= j
                      /\ best.threshold = cs[i].t
                      /\ best.f1 = F1(cs[i])

\* C14 (as the code has it): the threshold returned is a candidate threshold
\* in [0.05, 0.95] whose F1 is maximal, returned with that F1 (to within the
\* 1e-9 of the denominator); of several with the maximal F1 it is the one
\* with the greatest precision + recall, and the lowest of those; (0.5, 0.0)
\* when no candidate lies in the range; always in [0.05, 0.95].
C14_BestThreshold ==
    best # NoBest =>
        LET cs == best.candidates
            Sum(c) == [num |-> c.tp * (c.pp + c.P), den |-> c.pp * c.P]
            top == {i \in MaxF1(cs) : \A j \in MaxF1(cs) :
                       Sum(cs[j]).num * Sum(cs[i]).den <= Sum(cs[i]).num * Sum(cs[j]).den}
        IN  /\ best.threshold >= ThresholdLo /\ best.threshold <= ThresholdHi
            /\ \A k \in 1..Len(cs) : InRange(cs[k].t)
            /\ cs = <<>> => best.threshold = DefaultThreshold /\ best.f1.num = 0
            /\ cs # <<>> =>
                  \E i \in top :
                      /\ \A j \in top : i <= j
                      /\ best.threshold = cs[i].t
                      /\ best.f1 = F1(cs[i])

\* A test set with a score above the range and candidates in the range of
\* different F1: the one returned is in the range and is not the lowest.
C14_Witness ==
    /\ best # NoBest
    /\ scored[99].pos + scored[99].neg > 0
    /\ Len(best.candidates) >= 2
    /\ best.threshold = 90
    /\ LessF1(best.candidates[1], best.candidates[2])

\* No candidate in the range: every test row scored 0.01 or 0.99.
C14_FallbackWitness ==
    /\ best # NoBest /\ best.candidates = <<>>
    /\ best.threshold = DefaultThreshold

----------------------------------------------------------------------------
(* Category encoding: the loop over categorical_features in                 *)
(* ML/model_training.prepare_features and, word for word the same, in       *)
(* ML/improved_model_training.prepare_enhanced_features.  A column is the   *)
(* sequence of its values in row order.                                     *)

MaxCatRows == 2

\* Series.unique(): the distinct values in order of first appearance.
RECURSIVE unique(_)
unique(col) ==
    IF col = <<>> THEN <<>>
    ELSE LET rest == unique(SubSeq(col, 1, Len(col) - 1))
             last == col[Len(col)]
         IN  IF \E k \in 1..Len(rest) : rest[k] = last THEN rest
             ELSE Append(rest, last)

\* {val: idx for idx, val in enumerate(all_values)}
enumerate(all_values) ==
    [v \in {all_values[k] : k \in 1..Len(all_values)} |->
        (CHOOSE k \in 1..Len(all_values) : all_values[k] = v) - 1]

\* Series.map(value_to_int)
map(col, value_to_int) == [i \in 1..Len(col) |-> value_to_int[col[i]]]

\* Lines 118-128 of model_training.py, 166-176 of improved_model_training.py.
encode(train, test) ==
    LET value_to_int == enumerate(unique(train \o test))
    IN  [train |-> train, test |-> test, value_to_int |-> value_to_int,
         X_train |-> map(train, value_to_int),
         X_test |-> map(test, value_to_int)]

\* model_training.prepare_features, lines 113-130; the run then goes on to
\* its end with the encoders it built.
PrepareFeaturesEncode ==
    /\ Len(encodings) < 2
    /\ categories.train \o categories.test # <<>>
    /\ encodings' = Append(encodings, encode(categories.train, categories.test))
    /\ categories' = [train |-> <<>>, test |-> <<>>]
    /\ UNCHANGED notEncode

\* improved_model_training.prepare_enhanced_features, lines 161-178.
PrepareEnhancedFeaturesEncode ==
    /\ Len(encodings) < 2
    /\ categories.train \o categories.test # <<>>
    /\ encodings' = Append(encodings, encode(categories.train, categories.test))
    /\ categories' = [train |-> <<>>, test |-> <<>>]
    /\ UNCHANGED notEncode

Seasons == {"summer", "winter"}

Splits == {[train |-> a, test |-> b] :
              a \in UNION {[1..n -> Seasons] : n \in 0..MaxCatRows},
              b \in UNION {[1..n -> Seasons] : n \in 0..1}}

\* A later run of the script: split_data_by_date hands over the columns of
\* whatever features.csv then holds.
LaterRun ==
    /\ Len(encodings) = 1
    /\ categories = [train |-> <<>>, test |-> <<>>]
    /\ categories' \in Splits \ {[train |-> <<>>, test |-> <<>>]}
    /\ UNCHANGED <<notEncode, encodings>>

InitEncode ==
    /\ categories \in Splits
    /\ encodings = <<>>
    /\ JoinIdle /\ RollIdle /\ ThreshIdle /\ TrainIdle /\ ExportIdle /\ SetupIdle
    /\ files = NoFiles
    /\ trainer = [run |-> 0, pc |-> "idle"]
    /\ srv = "boot"
    /\ loadpc = "none"
    /\ model = None /\ feature_list = None /\ threshold = None /\ scaler = None
    /\ request = NoRequest
    /\ resp = NoResp
    /\ trainRow = NoRow

NextEncode == PrepareFeaturesEncode \/ PrepareEnhancedFeaturesEncode \/ LaterRun

SpecEncode == InitEncode /\ [][NextEncode]_vars

\* C15 (as claimed): a value has the same code wherever it is encoded: in
\* the training rows and the test rows of a run, and in a later run that
\* sees the same set of values in another order; distinct values have
\* distinct codes.
C15_StableCodes ==
    /\ \A e \in 1..Len(encodings) :
          LET m == encodings[e].value_to_int
          IN  /\ \A i \in 1..Len(encodings[e].train) :
                    encodings[e].X_train[i] = m[encodings[e].train[i]]
              /\ \A i \in 1..Len(encodings[e].test) :
                    encodings[e].X_test[i] = m[encodings[e].test[i]]
              /\ \A u, v \in DOMAIN m : u # v => m[u] # m[v]
    /\ \A e, f \in 1..Len(encodings) :
          LET m == encodings[e].value_to_int
              n == encodings[f].value_to_int
          IN  DOMAIN m = DOMAIN n => \A v \in DOMAIN m : m[v] = n[v]

----------------------------------------------------------------------------
(* The training scripts: ML/model_training.main, ML/improved_model_training *)
(* .main and ML/improved_model.main, a step per function main calls.  A     *)
(* table is kept as the number of rows of each kind (timestamp in days,     *)
(* label); a feature matrix with its labels as the number of positive, of   *)
(* negative and of synthetic rows.                                          *)

MaxClass == 12
SplitDays == 90             \* timedelta(days=90)
Neighbors == 3              \* SMOTE(k_neighbors=3)
DefaultNeighbors == 5       \* SMOTE(): k_neighbors defaults to 5
Folds == 5                  \* StratifiedKFold(n_splits=5)
TestShare == 5              \* test_size=0.2: a row in five
GridFolds == 3              \* GridSearchCV(cv=3)

RECURSIVE RowsOf(_, _)
RowsOf(t, S) ==
    IF S = {} THEN 0
    ELSE LET k == CHOOSE k \in S : TRUE IN t[k] + RowsOf(t, S \ {k})

len(t) == RowsOf(t, Kinds)
Xy(t) == [pos |-> RowsOf(t, {k \in Kinds : k.y = 1}),
          neg |-> RowsOf(t, {k \in Kinds : k.y = 0}),
          synthetic |-> 0]

\* df['timestamp'].max()
max_date(t) == CHOOSE m \in Stamps : /\ \E k \in Kinds : k.ts = m /\ t[k] > 0
                                     /\ \A k \in Kinds : t[k] > 0 => k.ts <= m

Before(ts, split_date) == ts < split_date
\* df['timestamp'] <= split_date
UpTo(ts, split_date) == ts <= split_date

\* split_data_by_date, lines 76-84 of model_training.py and 115-123 of
\* improved_model_training.py, on a table that holds a row.
split_data_by_date(t) ==
    LET split_date == max_date(t) - SplitDays
    IN  [train_df |-> [k \in Kinds |-> IF UpTo(k.ts, split_date) THEN t[k] ELSE 0],
         test_df  |-> [k \in Kinds |-> IF k.ts > split_date THEN t[k] ELSE 0]]

Min(a, b) == IF a <= b THEN a ELSE b
CeilDiv(a, b) == (a + b - 1) \div b

\* SMOTE(k_neighbors=k).fit_resample(X, y): an error when y holds one class
\* only; no new rows when the classes are level; an error from the neighbor
\* search when the smaller class has fewer than k + 1 rows; otherwise the
\* smaller class is filled up to the size of the larger with synthetic rows.
fit_resample(xy, k) ==
    LET minority == Min(xy.pos, xy.neg)
        call     == [k |-> k, minority |-> minority]
    IN  IF minority = 0
        THEN [call |-> call, raised |-> "ValueError: needs more than 1 class", out |-> xy]
        ELSE IF xy.pos = xy.neg
        THEN [call |-> call, raised |-> "", out |-> xy]
        ELSE IF minority < k + 1
        THEN [call |-> call, raised |-> "ValueError: Expected n_neighbors <= n_samples_fit",
              out |-> xy]
        ELSE [call |-> call, raised |-> "",
              out |-> IF xy.pos < xy.neg
                      THEN [xy EXCEPT !.pos = xy.neg, !.synthetic = xy.neg - xy.pos]
                      ELSE [xy EXCEPT !.neg = xy.pos, !.synthetic = xy.pos - xy.neg]]

ModelTraining == "model_training"
ImprovedModelTraining == "improved_model_training"
ImprovedModel == "improved_model"

\* The calls of each main, in the order main makes them.
Steps(script) ==
    IF script = ModelTraining
    THEN <<"load_and_explore_data", "preprocess_data", "split_data_by_date",
           "prepare_features", "train_models", "evaluate_models", "select_best",
           "save_model">>
    ELSE IF script = ImprovedModelTraining
    THEN <<"load_and_explore_data", "enhanced_feature_engineering", "preprocess_data",
           "split_data_by_date", "prepare_features", "handle_class_imbalance",
           "train_models", "evaluate_models", "select_best", "create_ensemble_model",
           "evaluate_models", "select_best", "save_model">>
    ELSE <<"load_and_label", "prepare_features", "train_test_split",
           "evaluate_model", "evaluate_model", "select_best", "save_model">>

Step(r) == IF r.raised # "" \/ r.pc > Len(Steps(r.script)) THEN "done"
           ELSE Steps(r.script)[r.pc]

\* The call returned: main goes on; the stages it did work of are logged.
Ran(r, stages) == [r EXCEPT !.pc = @ + 1, !.stages = @ \o stages]
\* The call raised: main ends there.
Raised(r, stages, exc) == [r EXCEPT !.raised = exc, !.stages = @ \o stages]

\* The rows a fitted model is scored on (X_balanced: the balanced training rows).
EvaluatedOnBalanced(r) == r.X_train_balanced
\* evaluate_model(best_rf, X_test, ...), evaluate_models_comprehensive(models,
\* X_test, ...), evaluate_model(name, pipe, X_train, y_train, X_test, y_test)
EvaluatedOn(r) == r.X_test

\* load_and_explore_data: pd.read_csv and prints.
LoadAndExploreData ==
    /\ Step(run) = "load_and_explore_data"
    /\ run' = Ran(run, <<"Load">>)
    /\ UNCHANGED <<df, notTrain>>

\* improved_model.load_and_label: read_csv, then the hazard label.
LoadAndLabel ==
    /\ Step(run) = "load_and_label"
    /\ run' = Ran(run, <<"Load", "Label">>)
    /\ UNCHANGED <<df, notTrain>>

\* improved_model_training.enhanced_feature_engineering: hazard_binary, then
\* the interaction, rolling and lag features, over the whole table.
EnhancedFeatureEngineering ==
    /\ Step(run) = "enhanced_feature_engineering"
    /\ run' = Ran(run, <<"Label", "Engineer-Features">>)
    /\ UNCHANGED <<df, notTrain>>

\* preprocess_data: model_training makes hazard_binary here;
\* improved_model_training, which made it before, adds hazard_multi, a label
\* no model is fitted on.
PreprocessData ==
    /\ Step(run) = "preprocess_data"
    /\ run' = Ran(run, IF run.script = ModelTraining THEN <<"Label">> ELSE <<>>)
    /\ UNCHANGED <<df, notTrain>>

\* split_data_by_date; its summary line divides by len(df).
SplitDataByDate ==
    /\ Step(run) = "split_data_by_date"
    /\ IF len(df) = 0
       THEN run' = Raised(run, <<"Split">>, "ZeroDivisionError")
       ELSE \E halves \in {split_data_by_date(df)} :
               run' = [Ran(run, <<"Split">>) EXCEPT !.train_df = halves.train_df,
                                                    !.test_df = halves.test_df]
    /\ UNCHANGED <<df, notTrain>>

\* prepare_features / prepare_enhanced_features of the two date-split
\* trainers: the feature columns and labels of each half;
\* improved_model.prepare_features: the rolling and engineered columns of the
\* whole table.
PrepareFeatures ==
    /\ Step(run) = "prepare_features"
    /\ IF run.script = ImprovedModel
       THEN run' = [Ran(run, <<"Engineer-Features">>) EXCEPT !.X = Xy(df)]
       ELSE run' = [Ran(run, <<"Engineer-Features">>) EXCEPT
                        !.X_train = Xy(run.train_df), !.X_test = Xy(run.test_df)]
    /\ UNCHANGED <<df, notTrain>>

Present(xy) == (IF xy.pos > 0 THEN 1 ELSE 0) + (IF xy.neg > 0 THEN 1 ELSE 0)
Few(xy, n) == (xy.pos > 0 /\ xy.pos < n) \/ (xy.neg > 0 /\ xy.neg < n)

\* A table of rows of two dates, an old one and one within the last 90 days.
Table(op, on, rp, rn) ==
    [k \in Kinds |-> IF k.ts = 0 THEN (IF k.y = 1 THEN op ELSE on)
                     ELSE IF k.ts = 91 THEN (IF k.y = 1 THEN rp ELSE rn)
                     ELSE 0]
ClassTables == {Table(op, on, rp, rn) : op \in 0..MaxClass, on \in 0..MaxClass,
                                         rp \in 0..1, rn \in 0..1}
\* A table of at most a row of each kind.
StampTables == [Kinds -> {0, 1}]

\* _approximate_mode of the stratified split: of n_draws rows each class gives
\* its share rounded down, and a row left over comes from the class with the
\* larger remainder, from either when the remainders are level.
Allocations(xy, n_draws) ==
    LET n    == xy.pos + xy.neg
        pos  == (xy.pos * n_draws) \div n
        neg  == (xy.neg * n_draws) \div n
        rpos == (xy.pos * n_draws) % n
        rneg == (xy.neg * n_draws) % n
    IN  IF pos + neg = n_draws THEN {[pos |-> pos, neg |-> neg, synthetic |-> 0]}
        ELSE {[pos |-> pos + 1, neg |-> neg, synthetic |-> 0] : x \in {1} \cap {y \in {1} : rpos >= rneg}}
             \cup
             {[pos |-> pos, neg |-> neg + 1, synthetic |-> 0] : x \in {1} \cap {y \in {1} : rneg >= rpos}}

\* train_test_split(X, y, test_size=0.2, random_state=42, stratify=y), then
\* the temp > 35 baseline scored on the test rows.  The training rows are
\* allocated to the classes first, the test rows are what is left of each
\* class; which rows of a class fall in the test part is the shuffle's choice.
TrainTestSplit ==
    /\ Step(run) = "train_test_split"
    /\ \E n \in {len(df)} : \E n_test \in {CeilDiv(n, TestShare)} :
        IF \/ n = 0
           \/ Few(run.X, 2)
           \/ n_test < Present(run.X)
           \/ n - n_test < Present(run.X)
        THEN run' = Raised(run, <<"Split">>, "ValueError")
        ELSE \E trxy \in Allocations(run.X, n - n_test) :
             \E te \in ClassTables :
                /\ \A k \in Kinds : te[k] <= df[k]
                /\ Xy(te).pos = run.X.pos - trxy.pos
                /\ Xy(te).neg = run.X.neg - trxy.neg
                /\ \E tr \in {[k \in Kinds |-> df[k] - te[k]]} :
                      run' = [Ran(run, <<"Split">>) EXCEPT
                                !.train_df = tr, !.test_df = te,
                                !.X_train = Xy(tr), !.X_test = Xy(te),
                                !.evaluated_on = @ \o << Xy(te) >>]
    /\ UNCHANGED <<df, notTrain>>

\* improved_model_training.handle_class_imbalance:
\* SMOTE(random_state=42, k_neighbors=3).fit_resample(X_train, y_train).
HandleClassImbalance ==
    /\ Step(run) = "handle_class_imbalance"
    /\ \E res \in {fit_resample(run.X_train, Neighbors)} :
        IF res.raised # ""
        THEN run' = [Raised(run, <<"Balance">>, res.raised) EXCEPT
                        !.smote = @ \o << res.call >>]
        ELSE run' = [Ran(run, <<"Balance">>) EXCEPT
                        !.smote = @ \o << res.call >>, !.X_train_balanced = res.out]
    /\ UNCHANGED <<df, notTrain>>

\* model_training: train_random_forest and train_xgboost, a GridSearchCV(cv=3)
\* each on X_train; improved_model_training.train_ensemble_models: four
\* models fitted on X_train_balanced.
TrainModels ==
    /\ Step(run) = "train_models"
    /\ IF run.script = ModelTraining
       THEN IF run.X_train.pos < GridFolds /\ run.X_train.neg < GridFolds
            THEN run' = Raised(run, <<"Fit">>, "ValueError")
            ELSE run' = [Ran(run, <<"Fit">>) EXCEPT
                            !.fitted_on = @ \o << run.X_train, run.X_train >>]
       ELSE run' = [Ran(run, <<"Fit">>) EXCEPT
                        !.fitted_on = @ \o << run.X_train_balanced >>]
    /\ UNCHANGED <<df, notTrain>>

\* The scores a model can get, two levels, and a score that is no number.
SelectionScores == {1, 2}
NoScore == 0 - 1

\* The models an evaluation step scores, in the order it scores them:
\* model_training its two grid searches, improved_model_training the four
\* models of train_ensemble_models (in the order of the dict) and, the second
\* time, the ensemble.
Evaluated(r) ==
    IF r.script = ModelTraining THEN <<"Random Forest", "XGBoost">>
    ELSE IF r.scores = <<>>
    THEN <<"Random Forest", "XGBoost", "Gradient Boosting", "Logistic Regression">>
    ELSE <<"Ensemble">>

\* Every way the named models can score; no threshold is computed for them.
Scored(names) ==
    {[i \in 1..Len(names) |-> [name |-> names[i], score |-> f[i], threshold |-> "none"]] :
        f \in [1..Len(names) -> SelectionScores]}

\* model_training.evaluate_model for both models;
\* improved_model_training.evaluate_models_comprehensive.  predict_proba has
\* no second column when the model saw one class; roc_auc_score wants both
\* classes among the test labels.
EvaluateModels ==
    /\ Step(run) = "evaluate_models"
    /\ \E fitted \in {run.fitted_on[Len(run.fitted_on)]} :
        IF Present(fitted) < 2
        THEN run' = Raised(run, <<"Evaluate">>, "IndexError")
        ELSE IF Present(EvaluatedOn(run)) < 2
        THEN run' = Raised(run, <<"Evaluate">>, "ValueError")
        ELSE \E scores \in Scored(Evaluated(run)) :
                run' = [Ran(run, <<"Evaluate">>) EXCEPT
                           !.evaluated_on = @ \o << EvaluatedOn(run) >>,
                           !.scores = @ \o scores]
    /\ UNCHANGED <<df, notTrain>>

\* StratifiedKFold(5) holds out a fifth of each class, rounded up in the
\* first folds and down in the last.
HeldOut(n, first) == IF first THEN CeilDiv(n, Folds) ELSE n \div Folds
\* The training rows of a fold.
FoldOf(xy, first) == [pos |-> xy.pos - HeldOut(xy.pos, first),
                      neg |-> xy.neg - HeldOut(xy.neg, first),
                      synthetic |-> 0]

\* improved_model.evaluate_model: cross_val_score of the pipeline (scale,
\* SMOTE(), classifier) over five folds, where a fold whose fit raises scores
\* NaN and, in the builds that check it, five failures out of five raise;
\* then the pipeline is fitted on X_train and scored on X_test, where the
\* threshold is chosen.
EvaluateModel ==
    /\ Step(run) = "evaluate_model"
    /\ \E small \in {fit_resample(FoldOf(run.X_train, TRUE), DefaultNeighbors)} :
       \E large \in {fit_resample(FoldOf(run.X_train, FALSE), DefaultNeighbors)} :
       \E final \in {fit_resample(run.X_train, DefaultNeighbors)} :
       \E checked \in BOOLEAN :
       \E name \in {IF run.scores = <<>> THEN "Logistic Regression" ELSE "Random Forest"} :
       \E ap \in SelectionScores :
        IF run.X_train.pos < Folds /\ run.X_train.neg < Folds
        THEN run' = Raised(run, <<>>, "ValueError: n_splits=5")
        ELSE IF large.raised # "" /\ checked
        THEN run' = [Raised(run, <<"Balance">>, "ValueError: All the 5 fits failed")
                        EXCEPT !.smote = @ \o << small.call, large.call >>,
                               !.cv = "nan"]
        ELSE IF final.raised # ""
        THEN run' = [Raised(run, <<"Balance">>, final.raised)
                        EXCEPT !.smote = @ \o << small.call, large.call, final.call >>,
                               !.cv = "nan"]
        ELSE run' = [Ran(run, <<"Balance", "Fit", "Evaluate">>)
                        EXCEPT !.smote = @ \o << small.call, large.call, final.call >>,
                               !.cv = IF small.raised # "" THEN "nan" ELSE "score",
                               !.X_train_balanced = final.out,
                               !.fitted_on = @ \o << final.out >>,
                               !.evaluated_on = @ \o << EvaluatedOn(run) >>,
                               !.scores = @ \o
                                   << [name |-> name,
                                       score |-> IF small.raised # "" THEN NoScore ELSE ap,
                                       threshold |-> name] >>]
    /\ UNCHANGED <<df, notTrain>>

\* a > b and a >= b of floats: false when either is NaN.
Greater(a, b) == a # NoScore /\ b # NoScore /\ a > b
GreaterEqual(a, b) == a # NoScore /\ b # NoScore /\ a >= b

\* max(results.keys(), key=...): the first of the keys with the greatest value.
first_max(scores) ==
    scores[CHOOSE i \in 1..Len(scores) :
              /\ \A j \in 1..Len(scores) : scores[j].score <= scores[i].score
              /\ \A j \in 1..(i - 1) : scores[j].score < scores[i].score]

\* The model main goes on with.  model_training, lines 321-328: Random Forest
\* when its ROC-AUC is greater, else XGBoost.  improved_model_training, lines
\* 386-388 and 401-404: the first of the four with the greatest F1, then the
\* ensemble when its F1 is greater.  improved_model, line 176: the forest and
\* its threshold when ap_rf >= ap_lr, else the regression and its threshold.
select_best(r) ==
    IF r.script = ModelTraining
    THEN IF Greater(r.scores[1].score, r.scores[2].score) THEN r.scores[1] ELSE r.scores[2]
    ELSE IF r.script = ImprovedModelTraining
    THEN IF r.best = <<>> THEN first_max(r.scores)
         ELSE IF Greater(r.scores[Len(r.scores)].score, r.best.score)
              THEN r.scores[Len(r.scores)] ELSE r.best
    ELSE IF GreaterEqual(r.scores[2].score, r.scores[1].score)
         THEN r.scores[2] ELSE r.scores[1]

\* The comparison of the evaluated models in main.
SelectBest ==
    /\ Step(run) = "select_best"
    /\ run' = [Ran(run, <<"Select-Best">>) EXCEPT !.best = select_best(run)]
    /\ UNCHANGED <<df, notTrain>>

\* improved_model_training.create_ensemble_model: a soft VotingClassifier
\* fitted on X_train_balanced.
CreateEnsembleModel ==
    /\ Step(run) = "create_ensemble_model"
    /\ run' = [Ran(run, <<"Fit">>) EXCEPT !.fitted_on = @ \o << run.X_train_balanced >>]
    /\ UNCHANGED <<df, notTrain>>

\* save_model_and_results, save_improved_model_and_results, the joblib.dump
\* calls of improved_model.main.
SaveModel ==
    /\ Step(run) = "save_model"
    /\ run' = [Ran(run, <<"Persist">>) EXCEPT !.persisted = TRUE]
    /\ UNCHANGED <<df, notTrain>>

InitTrain ==
    /\ JoinIdle /\ RollIdle /\ ThreshIdle /\ EncodeIdle /\ ExportIdle /\ SetupIdle
    /\ files = NoFiles
    /\ trainer = [run |-> 0, pc |-> "idle"]
    /\ srv = "boot"
    /\ loadpc = "none"
    /\ model = None /\ feature_list = None /\ threshold = None /\ scaler = None
    /\ request = NoRequest
    /\ resp = NoResp
    /\ trainRow = NoRow
    /\ \/ /\ run \in {[NoRun EXCEPT !.script = sc] :
                        sc \in {ModelTraining, ImprovedModelTraining}}
          /\ df \in ClassTables \cup StampTables
       \/ /\ run = [NoRun EXCEPT !.script = ImprovedModel]
          /\ df \in {t \in ClassTables : \A k \in Kinds : k.ts # 0 => t[k] = 0}

NextTrain ==
    \/ LoadAndExploreData
    \/ LoadAndLabel
    \/ EnhancedFeatureEngineering
    \/ PreprocessData
    \/ SplitDataByDate
    \/ PrepareFeatures
    \/ TrainTestSplit
    \/ HandleClassImbalance
    \/ TrainModels
    \/ EvaluateModels
    \/ EvaluateModel
    \/ SelectBest
    \/ CreateEnsembleModel
    \/ SaveModel

SpecTrain == InitTrain /\ [][NextTrain]_vars

\* ---- clean_and_export_features on its own inputs ----
MaxExportRows == 3

\* The days of the rows of a table: day 0, and a day more than SplitDays
\* later, which a split by date puts in the test rows.
ExportDays == {0, SplitDays + 1}

\* What a row of the table handed to clean_and_export_features can hold: a
\* day, a number or no number (severity left empty in the incidents file,
\* urban_density of a point outside every polygon), an incident_type or an
\* empty cell, a landcover_type or none (a point outside every polygon).
ExportShapes ==
    {[day |-> d, temp |-> t, incident_type |-> "fire", landcover_type |-> "urban"] :
        d \in ExportDays, t \in {0, 2, NaN}}
    \cup {[day |-> d, temp |-> t, incident_type |-> Missing, landcover_type |-> "urban"] :
        d \in ExportDays, t \in {0, NaN}}
    \cup {[day |-> d, temp |-> 2, incident_type |-> "fire", landcover_type |-> Missing] :
        d \in ExportDays}

ExportRow(i, shape) ==
    [incident |-> i, day |-> shape.day,
     incident_type |-> shape.incident_type, season |-> "summer",
     landcover_type |-> shape.landcover_type,
     temp |-> shape.temp, source |-> 0]

ExportTables ==
    UNION {{[i \in 1..n |-> ExportRow(i, f[i])] : f \in [1..n -> ExportShapes]} :
              n \in 1..MaxExportRows}

InitExport ==
    /\ final_df \in {[ready |-> TRUE, rows |-> t] : t \in ExportTables}
    /\ features = NotWritten
    /\ JoinIdle /\ RollIdle /\ ThreshIdle /\ EncodeIdle /\ TrainIdle /\ SetupIdle
    /\ files = NoFiles
    /\ trainer = [run |-> 0, pc |-> "idle"]
    /\ srv = "boot"
    /\ loadpc = "none"
    /\ model = None /\ feature_list = None /\ threshold = None /\ scaler = None
    /\ request = NoRequest
    /\ resp = NoResp
    /\ trainRow = NoRow

NextExport == CleanAndExportFeatures

SpecExport == InitExport /\ [][NextExport]_vars

\* ---- inference/setup.py ----
RequiredFiles == {"heat_hazard_best_v4.joblib", "feature_list_v4.joblib",
                  "threshold_v4.joblib"}
ScalerFile == "scaler_v4.joblib"
ModelFiles == RequiredFiles \cup {ScalerFile}
RequiredCount == 3          \* len(copied_files) >= 3

\* copy_model_files, lines 69-115: what it copied, what models/ holds
\* afterwards, and what it returned.  Without ../ML/models it returns False
\* before it makes models/ or copies a file.
copy_model_files(ml, models) ==
    LET required == {file \in RequiredFiles : file \in ml.files}
        copied == required \cup (IF ScalerFile \in ml.files THEN {ScalerFile} ELSE {})
    IN  IF ~ml.exists
        THEN [copied_files |-> {}, models |-> models, returned |-> FALSE]
        ELSE [copied_files |-> copied,
              models       |-> models \cup copied,
              returned     |-> Cardinality(copied) >= RequiredCount]

\* main, lines 161-167: check_python_version leaves with sys.exit(1) on an
\* old interpreter, create_virtual_env raises when venv cannot be made
\* (check=True); install_dependencies prints its failures and goes on.
PrepareEnvironment ==
    /\ setup.pc = "start"
    /\ \E ok \in BOOLEAN :
          setup' = [setup EXCEPT !.pc = IF ok THEN "prepared" ELSE "exited"]
    /\ UNCHANGED notSetup

\* main, lines 170-174: the files are copied; on False the script says the
\* setup is incomplete and returns.
CopyModelFiles ==
    /\ setup.pc = "prepared"
    /\ \E out \in {copy_model_files(setup.ml, setup.models)} :
          setup' = [setup EXCEPT
                      !.copied_files = out.copied_files,
                      !.models = out.models,
                      !.returned = out.returned,
                      !.pc = IF out.returned THEN "copied" ELSE "done",
                      !.report = IF out.returned THEN "none" ELSE "incomplete"]
    /\ UNCHANGED notSetup

\* main, lines 176-190, with test_setup, lines 117-154: True when the four
\* required modules import (a model file that does not load is only
\* reported), False otherwise.
TestSetup ==
    /\ setup.pc = "copied"
    /\ \E imported \in BOOLEAN :
          setup' = [setup EXCEPT
                      !.pc = "done",
                      !.report = IF imported THEN "completed" ELSE "failed"]
    /\ UNCHANGED notSetup

\* ../ML/models is absent, or holds any of the four files; models/ may hold
\* files of an earlier setup.
InitSetup ==
    /\ setup \in {[pc |-> "start", ml |-> m, models |-> l, copied_files |-> {},
                   returned |-> FALSE, report |-> "none"] :
                     m \in {[exists |-> FALSE, files |-> {}]}
                            \cup {[exists |-> TRUE, files |-> f] : f \in SUBSET ModelFiles},
                     l \in SUBSET ModelFiles}
    /\ JoinIdle /\ RollIdle /\ ThreshIdle /\ EncodeIdle /\ TrainIdle /\ ExportIdle
    /\ files = NoFiles
    /\ trainer = [run |-> 0, pc |-> "idle"]
    /\ srv = "boot"
    /\ loadpc = "none"
    /\ model = None /\ feature_list = None /\ threshold = None /\ scaler = None
    /\ request = NoRequest
    /\ resp = NoResp
    /\ trainRow = NoRow

NextSetup == PrepareEnvironment \/ CopyModelFiles \/ TestSetup

SpecSetup == InitSetup /\ [][NextSetup]_vars

\* The date split of the two trainers that split by date has returned.
DateSplitDone ==
    /\ run.script \in {ModelTraining, ImprovedModelTraining}
    /\ run.pc > 1 /\ Steps(run.script)[run.pc - 1] = "split_data_by_date"

\* C16: split_data_by_date partitions the rows: a row dated at or before the
\* latest date less 90 days is a training row, a later row is a test row, no
\* row is both or neither, every training date is before every test date, and
\* a table that holds a row gives a test set that holds a row.
C16_SplitPartitions ==
    DateSplitDone =>
        \E latest \in Stamps :
            /\ \E k \in Kinds : k.ts = latest /\ df[k] > 0
            /\ \A k \in Kinds : df[k] > 0 => k.ts <= latest
            /\ \A k \in Kinds :
                  /\ k.ts <= latest - SplitDays =>
                        run.train_df[k] = df[k] /\ run.test_df[k] = 0
                  /\ k.ts > latest - SplitDays =>
                        run.test_df[k] = df[k] /\ run.train_df[k] = 0
            /\ \A a \in Kinds, b \in Kinds :
                  run.train_df[a] > 0 /\ run.test_df[b] > 0 => a.ts < b.ts
            /\ len(run.test_df) > 0

\* A split with a training row dated exactly 90 days before the latest row,
\* and rows on both sides.
C16_Witness ==
    /\ DateSplitDone
    /\ \E a \in Kinds, b \in Kinds :
          /\ run.train_df[a] > 0 /\ run.test_df[b] > 0
          /\ a.ts = b.ts - SplitDays
          /\ \A k \in Kinds : df[k] > 0 => k.ts <= b.ts
    /\ len(run.train_df) > 1 /\ len(run.test_df) > 1

StageOrder == <<"Load", "Label", "Split", "Engineer-Features", "Balance", "Fit",
                "Evaluate", "Select-Best", "Persist">>
Rank(stage) == CHOOSE i \in 1..Len(StageOrder) : StageOrder[i] = stage

\* C17 (as claimed): a training run does the work of its stages in the order
\* Load, Label, Split, Engineer-Features, Balance, Fit, Evaluate, Select-Best,
\* Persist: no stage does work after a later stage has; features are
\* engineered after the split, and nothing is persisted before the best
\* model is selected.
C17_StagesInOrder ==
    /\ \A i \in 1..Len(run.stages), j \in 1..Len(run.stages) :
          i < j => Rank(run.stages[i]) <= Rank(run.stages[j])
    /\ run.persisted => \E i \in 1..Len(run.stages) : run.stages[i] = "Select-Best"

\* The trainers that balance the classes.
Balancing == {ImprovedModelTraining, ImprovedModel}

\* C18: in a trainer that balances the classes, the rows a model is
\* evaluated on, a threshold is chosen on and the best model is selected by
\* are the test rows the split gave, none of them synthetic: oversampling
\* adds rows to the training rows only.
C18_TestRowsUntouched ==
    run.script \in Balancing =>
        /\ \A i \in 1..Len(run.evaluated_on) :
              run.evaluated_on[i] = Xy(run.test_df)
        /\ \A k \in Kinds : run.test_df[k] <= df[k]
        /\ run.X_test.synthetic = 0
        /\ (run.X_test # NoXy => run.X_test = Xy(run.test_df))

\* A trainer that balances has added synthetic training rows, evaluated its
\* models and saved the best.
C18_Witness ==
    /\ run.script \in Balancing
    /\ run.X_train_balanced.synthetic > 0
    /\ \E i \in 1..Len(run.fitted_on) : run.fitted_on[i].synthetic > 0
    /\ Len(run.evaluated_on) >= 2
    /\ run.persisted

\* C19 (as claimed): whenever the oversampler is invoked, its number of
\* neighbors is at most the number of minority-class training rows less one;
\* and a run whose training rows hold too few minority rows for that number
\* fails before a model is fitted or saved.
C19_NeighborsFitMinority ==
    /\ \A i \in 1..Len(run.smote) :
          run.smote[i].minority > 0 => run.smote[i].k <= run.smote[i].minority - 1
    /\ (\E i \in 1..Len(run.smote) : run.smote[i].k > run.smote[i].minority - 1)
          => run.raised # "" /\ run.fitted_on = <<>> /\ ~run.persisted

----------------------------------------------------------------------------
(* The service once more: what requests and failed loads do to the bundle *)

\* C21: no request handler changes the shared bundle: while the service
\* handles requests, model, feature_list, threshold and scaler stay what the
\* last load_models call left them.
C21_HandlersKeepBundle == [][AcceptsRequests => UNCHANGED bundle]_vars

\* A prediction was served from a bundle that load_models loaded whole, with
\* its scaler.
C21_Witness ==
    /\ srv = "serving" /\ loadpc = "done"
    /\ resp.ep = "predict" /\ resp.status = 200
    /\ scaler # None /\ model # None

\* C29 (as claimed): a load_models call that raised leaves the globals as
\* they were before it, all unset at startup: never a model without its
\* feature list and threshold.
C29_FailedLoadKeepsGlobals ==
    loadpc = "failed" =>
        /\ model = None /\ feature_list = None /\ threshold = None /\ scaler = None
        /\ (model # None => feature_list # None /\ threshold # None)

----------------------------------------------------------------------------
(* The joins once more: what each output row carries *)

\* The weather records whose floored hour is at or before the floored hour of
\* the incident of a joined row.
HourAtOrBefore(row) ==
    {j \in 1..Len(weather) :
        dt_floor(weather[j].time, HourLen) <= dt_floor(incidents[row.left].time, HourLen)}

SameDay(row) ==
    {j \in 1..Len(weather) :
        dt_floor(weather[j].time, DayLen) = dt_floor(incidents[row.incident].time, DayLen)}

\* C23 (as claimed): in the day-floor pipeline an exported row's weather
\* values are those of a weather record of the incident's own day, never of
\* another day.
C23_SameDayWeather ==
    (joined.by = "data_preparation" /\ features.written) =>
        \A i \in 1..Len(features.rows) :
            features.rows[i].source # 0 => features.rows[i].source \in SameDay(features.rows[i])

\* Every weather point lies farther from the incident than the cutoff.
BeyondCutoff(i) ==
    \A j \in 1..Len(weather) :
        Dist2(incidents[i].pt, weather[j].pt) > MaxDistance * MaxDistance

----------------------------------------------------------------------------
(* The rolling aggregator once more: whose observations a window holds *)

\* C25 (as claimed): where the observations carry a location (all but the
\* one-city weather table of data_preparation), a rolling value is computed
\* from observations of its own location only, taken in timestamp order.
C25_WindowOfOneLocation ==
    rolled.by \in {"improved_model", "prep_data", "improved_model_training"} =>
        \A g \in 1..Len(rolled.groups) :
            LET rows == rolled.groups[g].rows
            IN  /\ \A i \in 1..Len(rows), j \in 1..Len(rows) :
                      i < j => rows[i].time <= rows[j].time
                /\ \A w \in DOMAIN rolled.groups[g].out :
                      \A i \in 1..Len(rows), j \in 1..Len(rows) :
                         (j <= i /\ j > i - w) => rows[j].loc = rows[i].loc

----------------------------------------------------------------------------
(* The trainers once more: which model is final *)

\* How simple a candidate is: the linear model before the tree ensembles,
\* those before the ensemble of all of them.
Complexity(name) ==
    IF name = "Logistic Regression" THEN 1
    ELSE IF name = "Ensemble" THEN 3
    ELSE 2

\* C26 (as claimed): of candidates with equal selection scores the simpler
\* model is the final one, the linear baseline before a tree ensemble; and
\* the threshold saved is the one computed for the final model.
C26_TiesGoToSimpler ==
    run.persisted =>
        /\ \A i \in 1..Len(run.scores) :
              run.scores[i].score = run.best.score
                 => Complexity(run.best.name) <= Complexity(run.scores[i].name)
        /\ run.best.threshold \in {"none", run.best.name}

\* The rows a split by date trains on: those whose day is at most the
\* latest day less SplitDays.
LatestDay(rows) ==
    CHOOSE m \in {rows[i].day : i \in 1..Len(rows)} :
        \A i \in 1..Len(rows) : rows[i].day <= m

TrainingRows(rows) ==
    LET InTrain(row) == UpTo(row.day, LatestDay(rows) - SplitDays)
    IN  SelectSeq(rows, InTrain)

SameNumber(a, b) ==
    IF a.den = 0 \/ b.den = 0 THEN a.den = b.den
    ELSE a.num * b.den = b.num * a.den

\* C27 (as claimed): every missing numeric cell of the exported table holds
\* the mean of its column over the rows of the training split only, so the
\* value filled in never depends on a row of the test split.
C27_FillIsTrainingMean ==
    features.written =>
        \A i \in 1..Len(features.rows) :
            features.rows[i].was_missing =>
                SameNumber(features.rows[i].temp,
                           column_mean(TrainingRows(final_df.rows)))

Complete(row) ==
    /\ row.incident_type # Missing
    /\ row.season # Missing
    /\ row.landcover_type # Missing

\* C28 (as claimed): no row of the exported table has a missing incident_type,
\* season or landcover_type; a row with a missing one is dropped, and a row
\* with all three present is kept.
C28_NoMissingCategorical ==
    features.written =>
        /\ \A i \in 1..Len(features.rows) : Complete(features.rows[i])
        /\ \A j \in 1..Len(final_df.rows) :
              Complete(final_df.rows[j]) <=>
                 \E i \in 1..Len(features.rows) : features.rows[i].incident = j

\* C30 (as claimed): copy_model_files returns True only if all three required
\* files were copied, the scaler file never making up for a missing one; and
\* setup.py runs test_setup and reports completion only after
\* copy_model_files returned True.
C30_TrueOnlyWithAllRequired ==
    /\ setup.returned => RequiredFiles \subseteq setup.copied_files
    /\ setup.pc = "copied" => setup.returned
    /\ setup.report \in {"completed", "failed"} => setup.returned

====
